---------------------------- MODULE Spec2Model ----------------------------
(***************************************************************************)
(* A model of the dependency-ordered upgrade orchestrator:                 *)
(*   - DependencyAnalyzer._topological_sort  (src/src/dependency_analyzer.py)*)
(*   - upgrade_file / upgrade_file_with_context (src/src/agentic_upgrader.py)*)
(*   - upgrade_repo_with_dependency_awareness / upgrade_repo_parallel       *)
(*                                            (src/src/repo_upgrader.py)    *)
(*                                                                         *)
(* File paths are modelled as natural numbers; the order of the numbers is  *)
(* the lexicographic order of the path strings (list.sort / sorted()).      *)
(***************************************************************************)
EXTENDS Integers, Sequences, FiniteSets, TLC

\* ------------------------------------------------------------------ bounds

\* Number of Python files found by _find_python_files (the graph's nodes).
NumFiles == 3
\* Largest number of import edges in the dependency graph.
MaxEdges == 3
\* Largest retry ceiling configured through ML_UPGRADER_MAX_RETRIES.
MaxRetries == 3
\* Largest number of import edges of a repository that is upgraded.
MaxRepoEdges == 2
\* Largest ML_UPGRADER_MAX_WORKERS of a parallel run.
MaxWorkers == 2
\* Largest number of setup_commands in the runtime configuration.
MaxSetupCommands == 2
\* Largest number of items of a captured output stream.
MaxTextLen == 2

\* ------------------------------------------------------------- the graph

\* The graph's nodes: the files os.walk discovers.
Files == 1..NumFiles

\* A file an import resolves to (os.path.isfile holds) that os.walk never
\* lists because it lies under a skipped directory (build/, venv/, dist/...).
SkippedDirFile == 0

\* What an import of a file can resolve to: any node (itself included) or a
\* file under a skipped directory.
ImportTargets == Files \cup {SkippedDirFile}

PossibleEdges == Files \X ImportTargets

\* dependency_graph as analyze_repository builds it: one entry per discovered
\* file, whose value is the duplicate-free list of resolved imports.  The
\* list is modelled as a set: the sort only tests membership and emptiness
\* and removes one element, which on a duplicate-free list is set removal.
GraphOf(E) == [f \in Files |-> {t \in ImportTargets : <<f, t>> \in E}]

DependencyGraphs ==
    {GraphOf(E) : E \in {X \in SUBSET PossibleEdges : Cardinality(X) <= MaxEdges}}

\* The insertion orders of dependency_graph's keys (os.walk's discovery order).
InsertionOrders ==
    {s \in [1..NumFiles -> Files] : \A i, j \in 1..NumFiles : i # j => s[i] # s[j]}

\* ------------------------------------------------------------ list helpers

RECURSIVE InsertSorted(_, _)
InsertSorted(x, s) ==
    IF s = <<>> THEN <<x>>
    ELSE IF x <= Head(s) THEN <<x>> \o s
    ELSE <<Head(s)>> \o InsertSorted(x, Tail(s))

Sorted_Unsorted(s) == s

\* list.sort() / sorted(): ascending order.
RECURSIVE Sorted(_)
Sorted(s) == IF s = <<>> THEN <<>> ELSE InsertSorted(Head(s), Sorted(Tail(s)))

Range(s) == {s[i] : i \in DOMAIN s}

\* [node for node, deps in graph.items() if <pred>], in insertion order.
RECURSIVE NodesWhere(_, _, _)
NodesWhere(ins, g, wantEmpty) ==
    IF ins = <<>> THEN <<>>
    ELSE (IF (g[Head(ins)] = {}) = wantEmpty THEN <<Head(ins)>> ELSE <<>>)
         \o NodesWhere(Tail(ins), g, wantEmpty)

\* ------------------------------------------------- _topological_sort steps

\* Lines 282-284: graph[other_node].remove(node) for every other_node that
\* lists node.
RemoveDependency(g, node) == [n \in DOMAIN g |-> g[n] \ {node}]

Freed_NoMembershipTest(ins, g, node) ==
    SelectSeq(ins, LAMBDA n : (g[n] \ {node}) = {})

\* Lines 282-288: the nodes appended to no_deps, in insertion order: those
\* that listed node and have no dependency left once it is removed.
Freed(ins, g, node) ==
    SelectSeq(ins, LAMBDA n : node \in g[n] /\ (g[n] \ {node}) = {})

\* One iteration of the main loop (lines 272-288) on the loop's locals.
LoopStep(ins, st) ==
    LET nd   == Sorted(st.no_deps)
        node == Head(nd)
    IN  [graph        |-> RemoveDependency(st.graph, node),
         sorted_files |-> Append(st.sorted_files, node),
         no_deps      |-> Tail(nd) \o Freed(ins, st.graph, node)]

AppendRemaining_InsertionOrder(ins, st) ==
    st.sorted_files \o NodesWhere(ins, st.graph, FALSE)

\* Lines 291-301: the files with dependencies left, sorted, appended.
AppendRemaining(ins, st) ==
    st.sorted_files \o Sorted(NodesWhere(ins, st.graph, FALSE))


\* ------------------------------------------------------------ text helpers
\* Texts are strings.  Two characters cannot be written in a string of this
\* module and are stood for by others: the backtick of a markdown fence is
\* written "@", and U+2019 (right single quotation mark) is written "~".

Whitespace == {" ", "\n", "\t", "\r"}

CharAt(s, i) == SubSeq(s, i, i)

\* str.startswith(p)
StartsWith(s, p) == Len(p) <= Len(s) /\ SubSeq(s, 1, Len(p)) = p

RECURSIVE LStripFrom(_, _)
LStripFrom(s, i) ==
    IF i > Len(s) THEN i
    ELSE IF CharAt(s, i) \in Whitespace THEN LStripFrom(s, i + 1) ELSE i

RECURSIVE RStripTo(_, _)
RStripTo(s, j) ==
    IF j < 1 THEN j
    ELSE IF CharAt(s, j) \in Whitespace THEN RStripTo(s, j - 1) ELSE j

\* str.strip()
Strip(s) == SubSeq(s, LStripFrom(s, 1), RStripTo(s, Len(s)))

LowerChar(c) ==
    CASE c = "I" -> "i" [] c = "M" -> "m" [] c = "S" -> "s" [] c = "O" -> "o"
      [] c = "R" -> "r" [] c = "Y" -> "y" [] c = "C" -> "c" [] c = "A" -> "a"
      [] c = "N" -> "n" [] c = "T" -> "t" [] c = "U" -> "u" [] c = "P" -> "p"
      [] c = "G" -> "g" [] c = "D" -> "d" [] c = "E" -> "e" [] c = "H" -> "h"
      [] OTHER -> c

\* str.lower(), on the letters the model's texts use.
RECURSIVE Lower(_)
Lower(s) == IF s = "" THEN "" ELSE LowerChar(CharAt(s, 1)) \o Lower(SubSeq(s, 2, Len(s)))

\* The index of the first occurrence of pat in s at or after from; 0 if none.
RECURSIVE Find(_, _, _)
Find(s, pat, from) ==
    IF from + Len(pat) - 1 > Len(s) THEN 0
    ELSE IF SubSeq(s, from, from + Len(pat) - 1) = pat THEN from
    ELSE Find(s, pat, from + 1)

Fence == "@@@"
FencePython == "@@@python"

\* clean_llm_response: re.search(r"```python\s*(.*?)```", response, DOTALL);
\* the group, stripped, if it matches, else the stripped response.  The
\* leftmost match starts at the first "```python", skips the white space
\* after it and ends before the next "```".
clean_llm_response(response) ==
    LET i == Find(response, FencePython, 1)
        j == LStripFrom(response, i + Len(FencePython))
        k == Find(response, Fence, j)
    IN  IF i = 0 \/ k = 0 THEN Strip(response)
        ELSE Strip(SubSeq(response, j, k - 1))

\* ------------------------------------------- upgrade_file: one file's loop

UpgradeFunctions == {"upgrade_file", "upgrade_file_with_context"}

\* apology_prefixes (line 69 of upgrade_file, line 184 of
\* upgrade_file_with_context): the last entry differs in its apostrophe.
apology_prefixes(fn) ==
    IF fn = "upgrade_file"
    THEN {"i'm sorry", "im sorry", "sorry", "i cannot", "i can~t"}
    ELSE {"i'm sorry", "im sorry", "sorry", "i cannot", "i can't"}

PlaceholderPrefix == "# upgraded code here"

EmptyError == "LLM returned empty response"
PlaceholderError == "LLM returned placeholder text instead of upgraded code"
ExhaustedError == "Maximum retries exceeded"
ValidationError == "Syntax error"
NoError == "None"

IsRefusal_LowercasedPlaceholder(fn, stripped_code) ==
    \/ \E p \in apology_prefixes(fn) : StartsWith(stripped_code, p)
    \/ StartsWith(stripped_code, PlaceholderPrefix)

\* Lines 69-70 / 184-185: stripped_code.lower().startswith(apology_prefixes)
\* or stripped_code.startswith("# upgraded code here").
IsRefusal(fn, stripped_code) ==
    \/ \E p \in apology_prefixes(fn) : StartsWith(Lower(stripped_code), p)
    \/ StartsWith(stripped_code, PlaceholderPrefix)

\* What the attempt does with a response: lines 61-73.
Classify(fn, response) ==
    LET stripped_code == Strip(clean_llm_response(response))
    IN  IF stripped_code = "" THEN "empty"
        ELSE IF IsRefusal(fn, stripped_code) THEN "refusal"
        ELSE "code"

\* The original text of the file under upgrade.
OriginalCode == "x = old"

\* The texts validate_code accepts (they parse, compile and load).
ValidPython == {"x = 1", "x = old"}

\* validator.validate_code(path, run_runtime=False) on a file holding `code`.
validate_code(code) ==
    IF code \in ValidPython THEN [ok |-> TRUE, error |-> NoError]
    ELSE [ok |-> FALSE, error |-> ValidationError]

\* What the transformation service may answer.
Responses ==
    { "@@@python\nx = 1\n@@@",          \* fenced, valid code
      "x = (",                          \* bare, invalid code
      "Sure:\n@@@python x = ( @@@ ok",  \* fenced with prose, invalid code
      "I'm sorry, I cannot do that",    \* apology
      " SORRY ",                        \* apology, upper case, padded
      "@@@python\nIm sorry\n@@@",       \* apology inside a fence
      "I can't",                        \* straight apostrophe
      "I can~t",                        \* U+2019 apostrophe
      "# upgraded code here\nx = 1",    \* the prompt's placeholder
      " \n ",                           \* white space only
      "@@@python @@@" }                 \* an empty fence

\* Where an attempt may raise: nowhere, in call_llm (transport error, empty
\* provider response), in write_file before the file is opened (makedirs,
\* open), in write_file after open(path, "w") has truncated the file
\* (f.write cannot encode the text), or in validate_code.
Faults == {"none", "call_llm", "write_file", "f.write", "validate_code"}

FaultError(fault) == "exception in " \o fault

NoPrompt == [code |-> "", error |-> NoError]

\* utils.build_prompt(code, error) and build_prompt_with_context(code,
\* dependency_context, error): the instructions followed by the code, with
\* the "failed with this error" section between them when error is neither
\* None nor empty.  The record keeps the two parts that vary.
build_prompt(code, error) ==
    [code |-> code, error |-> IF error \in {NoError, ""} THEN NoError ELSE error]

NoResult == [kind |-> "none", success |-> FALSE, attempts |-> 0, error |-> NoError]

FileUpgradeResult_NotReturned(success, attempts, error) ==
    [kind |-> "none", success |-> success, attempts |-> attempts, error |-> error]

\* report_generator.FileUpgradeResult (the fields the orchestrator reads).
FileUpgradeResult(success, attempts, error) ==
    [kind |-> "result", success |-> success, attempts |-> attempts, error |-> error]

\* The values ML_UPGRADER_MAX_RETRIES can hold: the CLI passes any integer
\* through (--max-retries, type=int).
RetryCeilings == -1..MaxRetries

\* One iteration of the retry loop (lines 57-101 / 169-217) on the locals
\*   attempt      the loop variable
\*   error        the error fed to the next prompt
\*   current_code the text the next prompt is built from
\*   prompt       the last prompt sent to the service
\*   response     the service's last answer
\*   output_file  the text at output_path
\*   llm_calls    calls of llm_interface.call_llm so far
\*   writes       calls of utils.write_file that returned so far
\*   candidate    the last new_code that passed the checks of lines 64-73
\*   last         what the last attempt was: exception, empty, refusal,
\*                invalid or valid
\*   exceptions   attempts that ended in the except clause so far
\*   result       the FileUpgradeResult returned, once there is one
AttemptStep(fn, st, response, fault) ==
    LET new_code == clean_llm_response(response)
        kind     == Classify(fn, response)
        n        == st.attempt + 1
        check    == validate_code(new_code)
        prompt   == build_prompt(st.current_code, st.error)
    IN  IF fault = "call_llm" THEN
            \* line 60 raises; line 99 records it
            [st EXCEPT !.attempt = n, !.prompt = prompt, !.llm_calls = @ + 1,
                       !.error = FaultError(fault), !.last = "exception",
                       !.exceptions = @ + 1]
        ELSE IF kind = "empty" THEN
            \* lines 64-67
            [st EXCEPT !.attempt = n, !.prompt = prompt, !.llm_calls = @ + 1, !.response = response,
                       !.error = EmptyError, !.last = kind]
        ELSE IF kind = "refusal" THEN
            \* lines 69-73
            [st EXCEPT !.attempt = n, !.prompt = prompt, !.llm_calls = @ + 1, !.response = response,
                       !.error = PlaceholderError, !.last = kind]
        ELSE IF fault = "write_file" THEN
            \* line 75 raises, the file untouched
            [st EXCEPT !.attempt = n, !.prompt = prompt, !.llm_calls = @ + 1, !.response = response,
                       !.candidate = new_code,
                       !.error = FaultError(fault), !.last = "exception",
                       !.exceptions = @ + 1]
        ELSE IF fault = "f.write" THEN
            \* line 75 raises, the file opened for writing and left empty
            [st EXCEPT !.attempt = n, !.prompt = prompt, !.llm_calls = @ + 1, !.response = response,
                       !.candidate = new_code, !.output_file = "",
                       !.error = FaultError(fault), !.last = "exception",
                       !.exceptions = @ + 1]
        ELSE IF fault = "validate_code" THEN
            \* line 78 raises, after the write
            [st EXCEPT !.attempt = n, !.prompt = prompt, !.llm_calls = @ + 1, !.response = response,
                       !.candidate = new_code,
                       !.output_file = new_code, !.writes = @ + 1,
                       !.error = FaultError(fault), !.last = "exception",
                       !.exceptions = @ + 1]
        ELSE IF check.ok THEN
            \* lines 80-93
            [st EXCEPT !.attempt = n, !.prompt = prompt, !.llm_calls = @ + 1, !.response = response,
                       !.candidate = new_code,
                       !.output_file = new_code, !.writes = @ + 1,
                       !.error = NoError, !.last = "valid",
                       !.result = FileUpgradeResult(TRUE, n, NoError)]
        ELSE
            \* lines 95-97
            [st EXCEPT !.attempt = n, !.prompt = prompt, !.llm_calls = @ + 1, !.response = response,
                       !.candidate = new_code,
                       !.output_file = new_code, !.writes = @ + 1,
                       !.current_code = new_code,
                       !.error = check.error, !.last = "invalid"]

Exhausted_GenericError(st, max_retries) ==
    FileUpgradeResult(FALSE, max_retries, ExhaustedError)

\* Lines 103-112: the result once range(1, MAX_RETRIES + 1) is used up.
Exhausted(st, max_retries) ==
    FileUpgradeResult(FALSE, max_retries,
                      IF st.error = NoError THEN ExhaustedError ELSE st.error)

PrecheckError_Ignored(precheck) == NoError

\* Lines 47-55: error = None; the precheck's error replaces it when the
\* original file is not valid, str(exc) when validate_code raises.
PrecheckError(precheck) ==
    CASE precheck = "ok"      -> NoError
      [] precheck = "invalid" -> ValidationError
      [] precheck = "raises"  -> FaultError("validate_code")

\* Lines 46-55: the locals when the loop is entered; precheck is the outcome
\* of validate_code on the original file: "ok", "invalid" or "raises".
LoopEntry(precheck) ==
    [attempt      |-> 0,
     precheck     |-> precheck,
     error        |-> PrecheckError(precheck),
     current_code |-> OriginalCode,
     prompt       |-> NoPrompt,
     response     |-> "",
     output_file  |-> OriginalCode,
     candidate    |-> "",
     llm_calls    |-> 0,
     writes       |-> 0,
     last         |-> "none",
     exceptions   |-> 0,
     result       |-> NoResult]

Prechecks == {"ok", "invalid", "raises"}

\* What upgrade_file finds at input_path: no file, a file
\* should_skip_for_upgrade rejects, a text file, or a text file that cannot
\* be read (read_file raises).
InputKinds == {"missing", "skipped", "text", "unreadable"}

\* --------------------------------------------------- the repository upgrade

\* get_upgrade_order: _topological_sort run to its end on dependency_graph.
RECURSIVE MainLoop(_, _)
MainLoop(ins, st) ==
    IF st.no_deps = <<>> THEN st ELSE MainLoop(ins, LoopStep(ins, st))

get_upgrade_order(ins, dg) ==
    AppendRemaining(ins,
        MainLoop(ins, [graph        |-> dg,
                       sorted_files |-> <<>>,
                       no_deps      |-> NodesWhere(ins, dg, TRUE)]))

\* The dependency graphs of the repositories that are upgraded: at most
\* MaxRepoEdges imports, none of a file by itself.
RepoGraphs ==
    {GraphOf(E) : E \in {X \in SUBSET {e \in PossibleEdges : e[1] # e[2]} :
                            Cardinality(X) <= MaxRepoEdges}}

\* The orders in which os.walk lists the files: ascending or descending.
WalkOrders ==
    {[i \in 1..NumFiles |-> i], [i \in 1..NumFiles |-> NumFiles + 1 - i]}

\* The files both loops pass over (macOS resource forks "._*.py", paths
\* under __MACOSX or holding ".pyc").  Such a file is not parseable Python
\* (_extract_file_dependencies returns []) and its module name cannot be
\* written in an import statement: it has no edge in the graph.
SpecialFileSets(dg) ==
    {S \in SUBSET Files :
        \A f \in S : dg[f] = {} /\ \A g \in Files : f \notin dg[g]}

UpgradeModes == {"sequential", "parallel"}

\* How the upgrade of one file ends: the first answer validates, no answer
\* validates within the retries, or an exception leaves the call.
UpgradeOutcomes == {"upgraded", "exhausted", "raised"}

\* What upgrade_file / upgrade_file_with_context returns for an outcome.
ReturnedResult(outcome, max_retries) ==
    IF outcome = "upgraded" THEN FileUpgradeResult(TRUE, 1, NoError)
    ELSE FileUpgradeResult(FALSE, max_retries, ValidationError)

ContextCandidates_AllDependencies(dg, file_path, cache) == dg[file_path] \cap Files

\* Lines 177-186: the dependencies of file_path that are in upgraded_cache;
\* those of them with a non-empty interface summary enter the context.
ContextCandidates(dg, file_path, cache) == dg[file_path] \cap cache

\* A FileUpgradeResult with its file_path.
FileResult(file_path, r) ==
    [file_path |-> file_path, success |-> r.success,
     attempts  |-> r.attempts, error   |-> r.error]

ContainFailure_NotRecorded(results, file_path, error) == results

\* The except clause of both loops: a failed result with 0 attempts is added
\* to the report's results.
ContainFailure(results, file_path, error) ==
    Append(results, FileResult(file_path, FileUpgradeResult(FALSE, 0, error)))

\* The results after the upgrade of file_path ended with outcome.
AddOutcome(results, file_path, outcome, max_retries) ==
    IF outcome = "raised"
    THEN ContainFailure(results, file_path, FaultError("upgrade_file"))
    ELSE Append(results, FileResult(file_path, ReturnedResult(outcome, max_retries)))

\* ------------------------------------------- the runtime validation engine
\* src/src/runtime_validation.py

\* Python's None.
None == "None"

\* What _run_subprocess reports: the process exited with status 0, exited
\* with another status, or subprocess.TimeoutExpired was raised.
SubprocessResults == {"exit_0", "exit_1", "timed_out"}

\* The subprocesses a validation call starts, by the name of their log
\* entry.
Steps ==
    {"create_virtualenv", "upgrade_toolchain", "dependency_install",
     "dependency_fallback", "editable_install", "setup_command",
     "runtime_command", "auto_install", "runtime_command_retry"}

\* settings["timeout"]: _runtime_timeout gives at least one second.
ConfiguredTimeout == "timeout"

\* The timeout argument of each _run_subprocess call: the setup commands
\* and the runtime command pass timeout=timeout (lines 707, 729, 761), the
\* other calls leave the default None (lines 637, 845, 853, 868, 885, 755).
timeout_of(step) ==
    IF step \in {"setup_command", "runtime_command", "runtime_command_retry"}
    THEN ConfiguredTimeout
    ELSE None

\* subprocess.run(..., timeout=timeout): with a timeout, a process that
\* does not exit in time is killed and TimeoutExpired is raised; without
\* one, run() waits for the process for ever.
SubprocessEndings(timeout) ==
    IF timeout = None
    THEN {"exit_0", "exit_1", "never_exits"}
    ELSE {"exit_0", "exit_1", "timed_out"}

\* result["returncode"] == 0 and not result["timed_out"].
ExitedZero(result) == result = "exit_0"

\* not result["timed_out"] and result["returncode"].
ExitedNonZero_Never(result) == FALSE
ExitedNonZero(result) == result = "exit_1"

\* What the runtime command can leave in its error output (stderr, or
\* stdout when stderr is empty): nothing, an import error of a module of a
\* package, an import error of a private module.
ErrorOutputs ==
    {"", "No module named 'pkg.sub'", "No module named '_ctypes'"}

\* _extract_missing_module, lines 529-538: the first dotted part of the
\* module the log names; None without a match or for a name that starts
\* with an underscore.
extract_missing_module(log) ==
    IF log = "No module named 'pkg.sub'" THEN "pkg" ELSE None

\* What the runtime command can do: how it ended and its error output; an
\* import error makes the interpreter exit with a non-zero status, and a
\* command that is killed at the time-out may have printed one before
\* (_run_subprocess keeps the partial output of a timed-out command).
RuntimeResults ==
    {result \in [ended : SubprocessEndings(timeout_of("runtime_command")),
                 log : ErrorOutputs] :
        /\ result.ended = "exit_0" => result.log = ""
        /\ result.ended = "timed_out" => result.log # "No module named '_ctypes'"}

\* runtime_result before the runtime command has run.
NotRun == [ended |-> "not_run", log |-> ""]

\* What is at the runtime config path of the project: no file, a file
\* _load_runtime_config or _parse_runtime_config rejects, a valid file
\* without a command, a valid file with one.
ConfigKinds == {"absent", "malformed", "no_command", "command"}

\* os.getenv("ML_UPGRADER_RUNTIME_COMMAND"): unset, set to the empty string,
\* set to a command.
EnvCommands == {None, "", "python main.py"}

\* The dependency manifests _discover_requirement_files can find.
ManifestFiles == {"requirements.txt", "scripts/requirements.txt"}

\* The order of normalized_files: the project root's manifest first.
ManifestOrder == <<"requirements.txt", "scripts/requirements.txt">>

\* normalized_files, lines 810-818: the manifests present, in order.
normalized_files(requirement_hashes) ==
    SelectSeq(ManifestOrder, LAMBDA file : file \in DOMAIN requirement_hashes)

\* What a failing pip install -r can leave in its error output: nothing
\* the fallback recognises, or an unsatisfiable version pin.
PipErrors == {"", "No matching distribution found for pkg==9.9"}

\* _extract_missing_distribution, lines 517-526: the package the message
\* names, without its version specifier.
extract_missing_distribution(message) ==
    IF message = "No matching distribution found for pkg==9.9"
    THEN "pkg"
    ELSE None

\* _hash_file: the content hash of a manifest, as first found and after an
\* edit of the file.
Hashes == {"sha256 of the original", "sha256 of the edit"}

\* requirement_hashes of a project nobody edited yet: the hash of every
\* manifest present.
OriginalHashMaps ==
    {[file \in present |-> "sha256 of the original"] :
        present \in SUBSET ManifestFiles}

\* The consecutive validation calls on one project.
ValidationCalls == <<"first", "second">>

\* The "shell" option of the runtime configuration: absent, true or false.
ShellPreferences == {None, "true", "false"}

\* A command is a string or a list of strings.
CommandKinds == {"str", "list"}

\* _prepare_command, lines 426-437: use_shell; a string runs through the
\* shell and a list directly, unless the shell option says otherwise.
prepare_command(kind, shell_preference) ==
    IF shell_preference # None THEN shell_preference = "true"
    ELSE kind = "str"

\* The configured setup commands, by position (from 1): a string, a list,
\* a string, and so on.
setup_command_kind(position) == IF position % 2 = 1 THEN "str" ELSE "list"

\* runtime_directory = runtime_cwd or project_root, line 610.
runtime_directory == "runtime_directory"

\* Every combination of project settings.
ProjectSettings ==
    [root_is_dir : BOOLEAN,
     config : ConfigKinds,
     env_command : EnvCommands,
     editable_sources_present : BOOLEAN,
     skip_install : BOOLEAN,
     force_reinstall : BOOLEAN,
     setup_commands : 0..MaxSetupCommands,
     shell_preference : ShellPreferences]

\* _load_marker(marker_path) or {}: what the code reads when the
\* environment has no marker file.
NoMarker == [requirements_hashes |-> <<>>, editable_installed |-> FALSE]

\* _resolve_runtime_settings, lines 380-386: the configuration error, if any.
ConfigError(a_project) ==
    IF a_project.config = "malformed" THEN "config_error" ELSE None

\* _resolve_runtime_settings, lines 388-391: env_command or
\* parsed_config.get("command"); the empty string and None both count as
\* no command.
ResolvedCommand_EmptyIsCommand(a_project) ==
    IF a_project.env_command # None THEN a_project.env_command
    ELSE IF a_project.config = "command" THEN "config command"
    ELSE None
ResolvedCommand(a_project) ==
    IF a_project.env_command \notin {None, ""} THEN a_project.env_command
    ELSE IF a_project.config = "command" THEN "config command"
    ELSE None

\* The locals of one call of perform_project_runtime_validation at its
\* entry, and what the call has done: auto_install_cmd is the package the
\* automatic recovery installs, marker_saved whether the install step wrote
\* the marker; venv_creations, install_steps,
\* auto_installs, executions and store_calls count the virtual environment
\* creations, the install steps not skipped, the pip installs of a missing
\* module, the runs of the runtime command and the calls of
\* _store_runtime_outputs; requirements is requirement_hashes at entry.
\* setup_log has, for every setup command run, the kind of the command,
\* the shell and cwd arguments of its subprocess and how it ended.
\* output_capture_dir and compare_with_dir tell whether the call was given
\* the directory; the two arguments are drawn where the call first reads
\* them (lines 72, 80 and 87) and are FALSE until then. capture_dir tells
\* whether the call has prepared the capture directory.
EnterCall(call, requirements) ==
    [call |-> call,
     pc |-> "call",
     requirements |-> requirements,
     install_ok |-> TRUE,
     setup_index |-> 0,
     setup_log |-> <<>>,
     runtime_result |-> NotRun,
     final_result |-> NotRun,
     auto_install_attempted |-> FALSE,
     auto_install_cmd |-> None,
     auto_install_result |-> "not_run",
     install_log |-> <<>>,
     waiting_for |-> None,
     output_capture_dir |-> FALSE,
     compare_with_dir |-> FALSE,
     capture_dir |-> FALSE,
     marker_saved |-> FALSE,
     venv_creations |-> 0,
     install_steps |-> 0,
     auto_installs |-> 0,
     executions |-> 0,
     store_calls |-> 0,
     success |-> FALSE,
     reason |-> None,
     result |-> <<>>]

\* No validation call is in progress.
NoValidation == [pc |-> "idle"]

\* What is kept of a call that returned.
Summary(v) ==
    [requirements |-> v.requirements, install_steps |-> v.install_steps,
     install_ok |-> v.install_ok, marker_saved |-> v.marker_saved]

\* The project of a run that makes no validation call.
NoProject ==
    [root_is_dir |-> TRUE, config |-> "absent", env_command |-> None,
     editable_sources_present |-> FALSE, skip_install |-> FALSE,
     force_reinstall |-> FALSE, setup_commands |-> 0,
     shell_preference |-> None]

\* The projects checked: the settings only _run_runtime_validation reads
\* are varied for the projects whose command comes from the configuration
\* file alone; the projects whose command comes from the environment, and
\* those whose call never reaches _run_runtime_validation, leave them at
\* their defaults.
Projects ==
    {p \in ProjectSettings :
        \/ /\ p.root_is_dir
           /\ p.config = "command"
           /\ p.env_command = None
        \/ /\ p.editable_sources_present = NoProject.editable_sources_present
           /\ p.skip_install = NoProject.skip_install
           /\ p.force_reinstall = NoProject.force_reinstall
           /\ p.setup_commands = NoProject.setup_commands
           /\ p.shell_preference = NoProject.shell_preference}

\* The process environment and the temporary directory of a run:
\* project_root is os.environ's ML_UPGRADER_PROJECT_ROOT (None: not set),
\* previous_project_root the local of that name, baseline_temp_dir whether
\* the directory made by tempfile.mkdtemp exists.
NoEnviron ==
    [project_root |-> None, previous_project_root |-> None,
     baseline_temp_dir |-> FALSE]

\* The environments a run starts in: the setting is not set, or, for the
\* repositories without import edges, set by the caller.
Environs(dg) ==
    {NoEnviron} \cup
    (IF \A f \in Files : dg[f] = {}
     THEN {[NoEnviron EXCEPT !.project_root = "caller_project"]}
     ELSE {})

\* How a run of upgrade_repo ends: by return or by the exception named.
ExitStates ==
    {"returned", "RuntimeError", "TypeError", "ValueError", "ZeroDivisionError"}

Finally_OnReturnOnly(env, pc) ==
    IF pc = "returned"
    THEN [env EXCEPT !.baseline_temp_dir = FALSE,
                     !.project_root = env.previous_project_root]
    ELSE env

\* Lines 270-277 / 486-493: the finally clause, run on every way out of the
\* try block: remove the temporary baseline directory, then put
\* previous_project_root back (pop the key when it was None).
Finally(env, pc) ==
    IF pc \in ExitStates
    THEN [env EXCEPT !.baseline_temp_dir = FALSE,
                     !.project_root = env.previous_project_root]
    ELSE env

\* The file system of a run that makes no validation call.
NoDisk == [venv_python |-> FALSE]

\* What the subprocesses of one manifest do: pip install -r, the error
\* output of a failure, and the fallback install; what is not read is left
\* at a fixed value.
ManifestRuns ==
    {run \in [install_result : SubprocessEndings(timeout_of("dependency_install")),
              stderr : PipErrors,
              fallback_result : SubprocessEndings(timeout_of("dependency_fallback"))] :
        /\ run.install_result # "exit_1" => run.stderr = ""
        /\ extract_missing_distribution(run.stderr) = None
              => run.fallback_result = "exit_0"}

\* What the subprocesses of one install step do.
InstallRuns(files) ==
    [toolchain : SubprocessEndings(timeout_of("upgrade_toolchain")),
     manifests : [Range(files) -> ManifestRuns],
     editable : SubprocessEndings(timeout_of("editable_install"))]

\* A log entry of the install step: the step, what it installs, how the
\* subprocess ended and its error output.
StepLog(step, target, result, stderr) == <<step, target, result, stderr>>

\* What the install step has come to: whether it succeeded so far, whether
\* it waits on a subprocess that never exits, and its log.
Installed(success, blocked, log) ==
    [success |-> success, blocked |-> blocked, log |-> log]

\* Lines 867-872: the loop goes on to the next manifest after a fallback
\* install that exited with status 0.
FallbackContinues_Never(fallback_result) == FALSE
FallbackContinues(fallback_result) == ExitedZero(fallback_result)

\* _ensure_dependencies_installed, lines 851-873: the manifests are
\* installed one by one; a time-out, a failure without fallback package
\* or a failed fallback install leaves the loop.
RECURSIVE install_manifests(_, _)
install_manifests(files, runs) ==
    IF files = <<>> THEN Installed(TRUE, FALSE, <<>>)
    ELSE LET req_path == Head(files)
             install_result == runs[req_path].install_result
             fallback_package == extract_missing_distribution(runs[req_path].stderr)
             fallback_result == runs[req_path].fallback_result
             install == StepLog("dependency_install", req_path, install_result,
                                runs[req_path].stderr)
             fallback == StepLog("dependency_fallback", fallback_package,
                                 fallback_result, "")
             rest == install_manifests(Tail(files), runs)
         IN  IF install_result = "never_exits"
             THEN Installed(FALSE, TRUE, <<install>>)
             ELSE IF install_result = "timed_out"
             THEN Installed(FALSE, FALSE, <<install>>)
             ELSE IF ExitedZero(install_result)
             THEN [rest EXCEPT !.log = <<install>> \o @]
             ELSE IF fallback_package = None
             THEN Installed(FALSE, FALSE, <<install>>)
             ELSE IF fallback_result = "never_exits"
             THEN Installed(FALSE, TRUE, <<install, fallback>>)
             ELSE IF FallbackContinues(fallback_result)
             THEN [rest EXCEPT !.log = <<install, fallback>> \o @]
             ELSE Installed(FALSE, FALSE, <<install, fallback>>)

\* Lines 844-888: what the install step can do once it is not skipped: the
\* toolchain upgrade, the manifest installs when install_needed, the
\* editable install when run_editable and everything before it succeeded.
DependencyInstalls(install_needed, files, run_editable) ==
    {LET toolchain == StepLog("upgrade_toolchain", "pip setuptools wheel",
                              runs.toolchain, "")
         installs == IF install_needed
                     THEN install_manifests(files, runs.manifests)
                     ELSE Installed(TRUE, FALSE, <<>>)
         editable == StepLog("editable_install", "project_root", runs.editable, "")
     IN  IF runs.toolchain = "never_exits"
         THEN Installed(FALSE, TRUE, <<toolchain>>)
         ELSE IF ~ExitedZero(runs.toolchain)
         THEN Installed(FALSE, FALSE, <<toolchain>>)
         ELSE IF ~(run_editable /\ installs.success)
         THEN [installs EXCEPT !.log = <<toolchain>> \o @]
         ELSE Installed(ExitedZero(runs.editable),
                        runs.editable = "never_exits",
                        <<toolchain>> \o installs.log \o <<editable>>) :
        runs \in InstallRuns(files)}

\* Lines 890-895: the marker is written when the install step succeeded.
MarkerWritten_Always(success) == TRUE
MarkerWritten(success) == success

\* Lines 825-833: the install step is skipped when the manifests' hashes
\* equal the marker's and no editable install is due.
InstallSkipped_IgnoresMarker(force_reinstall, requirement_hashes, marker, editable_sources_present) ==
    FALSE
InstallSkipped(force_reinstall, requirement_hashes, marker, editable_sources_present) ==
    LET install_needed == force_reinstall
                          \/ requirement_hashes # marker.requirements_hashes
        run_editable == editable_sources_present
                        /\ (force_reinstall \/ ~marker.editable_installed)
    IN  ~install_needed /\ ~run_editable

\* Lines 744-751: the conditions of the one automatic recovery.
AutoRecoverable_AnyFailure(install_ok, skip_install, runtime_result) ==
    ~ExitedZero(runtime_result.ended)
AutoRecoverable(install_ok, skip_install, runtime_result) ==
    /\ install_ok
    /\ ~skip_install
    /\ ExitedNonZero(runtime_result.ended)
    /\ extract_missing_module(runtime_result.log) # None

\* Lines 777-785: the reason of a failed run.
FailureReason(final_result, install_ok) ==
    IF final_result.ended = "timed_out" THEN "Runtime command timed out"
    ELSE IF ExitedNonZero(final_result.ended)
    THEN "Runtime command exited with status"
    ELSE IF ~install_ok THEN "Dependency installation failed"
    ELSE "Runtime validation failed"

\* _run_runtime_validation returns (True, None, details).
Succeeded(v) == [v EXCEPT !.pc = "store", !.success = TRUE]

\* _run_runtime_validation returns (False, error_message, details).
Failed(v, reason) == [v EXCEPT !.pc = "store", !.success = FALSE, !.reason = reason]

\* _run_subprocess does not return: the call waits in the step for ever.
Blocked(v, step) == [v EXCEPT !.pc = "blocked", !.waiting_for = step]

\* perform_project_runtime_validation returns (ok, reason); the log of the
\* install step, part of runtime_details, is not kept past the return.
Return(v, ok, reason) ==
    [v EXCEPT !.pc = "returned", !.result = <<ok, reason>>, !.install_log = <<>>]

\* ------------------------------------------- _compare_runtime_outputs
\* Text is modelled as a sequence of characters; the placeholder is one
\* character of its own.

\* os.sep.
sep == "/"

\* replacement = "<PROJECT_ROOT>".
replacement == "<PROJECT_ROOT>"

\* The absolute project roots metadata.json can name (os.path.abspath of
\* the project): /a, /ab and /b.
Roots == {<<sep, "a">>, <<sep, "a", "b">>, <<sep, "b">>}

\* Where a captured stream printed the project root of its own run.
RootHole == "{project_root}"

\* What a run prints, up to the project root it runs in: at most
\* MaxTextLen items, each a character or the run's project root.
Templates == UNION {[1..n -> {RootHole, "b"}] : n \in 0..MaxTextLen}

\* The text a run in project root root prints for a template.
RECURSIVE Printed(_, _)
Printed(template, root) ==
    IF template = <<>> THEN <<>>
    ELSE (IF Head(template) = RootHole THEN root ELSE <<Head(template)>>)
         \o Printed(Tail(template), root)

\* str.rstrip(os.sep).
RECURSIVE rstrip(_)
rstrip(path) ==
    IF path # <<>> /\ path[Len(path)] = sep
    THEN rstrip(SubSeq(path, 1, Len(path) - 1))
    ELSE path

\* os.path.normpath on a path without "." and ".." parts and without
\* doubled separators: the trailing separators go, "/" stays.
normpath(path) == IF rstrip(path) = <<>> THEN <<sep>> ELSE rstrip(path)

\* str.replace(old, new): the occurrences of old are replaced from left to
\* right, without overlap.
RECURSIVE replace(_, _, _)
replace(text, old, new) ==
    IF Len(text) < Len(old) THEN text
    ELSE IF SubSeq(text, 1, Len(old)) = old
    THEN new \o replace(SubSeq(text, Len(old) + 1, Len(text)), old, new)
    ELSE <<Head(text)>> \o replace(Tail(text), old, new)

\* _replace_root, lines 1190-1196: the spellings of the root looked for.
variants(root) ==
    {root, normpath(root), normpath(root) \o <<sep>>, rstrip(root) \o <<sep>>}

\* The orders in which a set can be iterated.
IterationOrders(set) ==
    {order \in [1..Cardinality(set) -> set] :
        \A i, j \in DOMAIN order : i # j => order[i] # order[j]}

\* _replace_root, lines 1198-1204: every variant is replaced in turn, a
\* variant that ends with the separator by the placeholder and a separator.
RECURSIVE replace_variants(_, _)
replace_variants(text, order) ==
    IF order = <<>> THEN text
    ELSE LET variant == Head(order)
             normalized_variant == IF variant[Len(variant)] = sep
                                   THEN <<replacement, sep>>
                                   ELSE <<replacement>>
         IN  replace_variants(replace(text, variant, normalized_variant),
                              Tail(order))

\* _normalize_runtime_output_text, lines 1184-1209: the baseline root is
\* replaced first, the current root second; each order is the iteration
\* order of the root's set of variants.
normalize_runtime_output_text(content, baseline_order, current_order) ==
    replace_variants(replace_variants(content, baseline_order), current_order)

\* What metadata.json records of a run that was captured: how the runtime
\* command ended.
MetaStatuses == SubprocessResults

\* metadata["returncode"].
returncode(status) ==
    IF status = "exit_0" THEN "0" ELSE IF status = "exit_1" THEN "1" ELSE None

\* bool(metadata.get("timed_out")).
timed_out(status) == status = "timed_out"

\* What can be wrong with the two capture directories: no reference
\* directory is given, a directory or a file of it is missing or unreadable,
\* a metadata file holds an empty object.
CaptureFaults ==
    {"no_reference_dir", "reference_dir_missing", "current_dir_missing",
     "baseline_meta_unreadable", "current_meta_unreadable",
     "baseline_meta_empty", "current_meta_empty",
     "baseline_stdout_unreadable", "current_stdout_unreadable",
     "baseline_stderr_unreadable", "current_stderr_unreadable"}

\* The commands a run can be configured with (settings["command"], stored
\* as metadata["command_original"]).
RuntimeCommands == {"python main.py", "python other.py"}

\* The capture of one run: its metadata, and the templates of its streams.
Captures ==
    [project_root : Roots, success : BOOLEAN, status : MetaStatuses,
     command_original : RuntimeCommands,
     stdout : Templates, stderr : {<<>>, <<RootHole>>}]

\* The captures _store_runtime_outputs writes: success is recorded only
\* for a command that exited with status 0 (lines 734, 765).
StoredCaptures ==
    {capture \in Captures : capture.success => capture.status = "exit_0"}

\* A baseline capture and a capture of the upgraded project, intact or with
\* one fault; the streams of a faulty pair are empty. The success flag of
\* the upgraded capture is never read and is left TRUE. Commands are named
\* up to renaming: the baseline ran the first one.
CapturePairs ==
    {[fault |-> None, baseline |-> baseline, current |-> current] :
        baseline \in {capture \in StoredCaptures :
                         capture.command_original = "python main.py"},
        current \in {capture \in Captures : capture.success}}
    \cup
    {[fault |-> fault, baseline |-> baseline,
      current |-> [baseline EXCEPT !.success = TRUE, !.status = status]] :
        fault \in CaptureFaults,
        baseline \in {capture \in StoredCaptures :
                         /\ capture.command_original = "python main.py"
                         /\ capture.stdout = <<>>
                         /\ capture.stderr = <<>>},
        status \in MetaStatuses}

\* The pair while no comparison is made.
NoCapturePair == [fault |-> "no_reference_dir"]

\* The content of a captured stream file.
StreamText(capture, template) == Printed(template, capture.project_root)

\* Line 1109: the baseline must have succeeded.
BaselineSucceeded_Ignored(baseline_meta) == TRUE
BaselineSucceeded(baseline_meta) == baseline_meta.success

\* The result of the comparison and the normalized streams it compared
\* (empty when it did not get to line 1135).
Compared(ok, reason, streams) ==
    [ok |-> ok, reason |-> reason, streams |-> streams]

\* _compare_runtime_outputs, lines 1083-1181.
compare_runtime_outputs(pair, baseline_order, current_order) ==
    LET fault == pair.fault
        baseline_stdout == normalize_runtime_output_text(
            StreamText(pair.baseline, pair.baseline.stdout), baseline_order, current_order)
        current_stdout == normalize_runtime_output_text(
            StreamText(pair.current, pair.current.stdout), baseline_order, current_order)
        baseline_stderr == normalize_runtime_output_text(
            StreamText(pair.baseline, pair.baseline.stderr), baseline_order, current_order)
        current_stderr == normalize_runtime_output_text(
            StreamText(pair.current, pair.current.stderr), baseline_order, current_order)
        streams == <<baseline_stdout, current_stdout, baseline_stderr, current_stderr>>
    IN  IF fault \in {"no_reference_dir", "reference_dir_missing"}
        THEN Compared(TRUE, None, <<>>)
        ELSE IF fault = "current_dir_missing"
        THEN Compared(FALSE, "Captured runtime outputs directory not found for comparison", <<>>)
        ELSE IF fault = "baseline_meta_unreadable"
        THEN Compared(FALSE, "Failed to read baseline runtime metadata", <<>>)
        ELSE IF fault = "current_meta_unreadable"
        THEN Compared(FALSE, "Failed to read upgraded runtime metadata", <<>>)
        ELSE IF fault = "baseline_meta_empty"
        THEN Compared(FALSE, "Baseline runtime metadata missing", <<>>)
        ELSE IF fault = "current_meta_empty"
        THEN Compared(FALSE, "Runtime metadata missing", <<>>)
        ELSE IF ~BaselineSucceeded(pair.baseline)
        THEN Compared(FALSE, "Baseline runtime execution did not succeed", <<>>)
        ELSE IF fault = "baseline_stdout_unreadable"
        THEN Compared(FALSE, "Failed to read baseline runtime stdout", <<>>)
        ELSE IF fault = "current_stdout_unreadable"
        THEN Compared(FALSE, "Failed to read upgraded runtime stdout", <<>>)
        ELSE IF fault = "baseline_stderr_unreadable"
        THEN Compared(FALSE, "Failed to read baseline runtime stderr", <<>>)
        ELSE IF fault = "current_stderr_unreadable"
        THEN Compared(FALSE, "Failed to read upgraded runtime stderr", <<>>)
        ELSE IF returncode(pair.baseline.status) # returncode(pair.current.status)
        THEN Compared(FALSE, "Runtime return code changed between baseline and upgraded runs", streams)
        ELSE IF timed_out(pair.baseline.status) # timed_out(pair.current.status)
        THEN Compared(FALSE, "Runtime timeout status changed between baseline and upgraded runs", streams)
        ELSE IF baseline_stdout # current_stdout
        THEN Compared(FALSE, "Runtime stdout differs between baseline and upgraded runs", streams)
        ELSE IF baseline_stderr # current_stderr
        THEN Compared(FALSE, "Runtime stderr differs between baseline and upgraded runs", streams)
        ELSE Compared(TRUE, None, streams)

\* No comparison has been made.
NotCompared == [ok |-> FALSE]

VARIABLES
    dependency_graph,  \* self.dependency_graph: file -> its resolved imports
    insertion,         \* the insertion order of dependency_graph's keys
    graph,             \* _topological_sort: the working copy
    sorted_files,      \* _topological_sort: the result list
    no_deps,           \* _topological_sort: the queue of ready files
    main_count,        \* number of files the main loop placed
    sort_pc,           \* position in _topological_sort
    upgrade_fn,        \* which of upgrade_file / upgrade_file_with_context runs
    MAX_RETRIES,       \* int(os.getenv("ML_UPGRADER_MAX_RETRIES", "5"))
    input_kind,        \* what is at input_path
    loop,              \* the retry loop's locals (see AttemptStep)
    file_pc,           \* position in upgrade_file: start, loop, done, raised
    mode,              \* upgrade_repo: sequential (dependency-aware) or parallel
    special,           \* the files both loops pass over
    ordered_files,     \* ordered_files / python_files: the files to upgrade
    index,             \* number of files taken from ordered_files so far
    running,           \* the files whose upgrade has started and not ended
    results,           \* report_generator_instance.results
    upgraded_cache,    \* upgraded_cache: the files upgraded successfully
    dependency_context,\* the dependencies whose interface summary the
                       \* running upgrade was given
    max_workers,       \* int(os.getenv("ML_UPGRADER_MAX_WORKERS", "5"))
    report,            \* the results UPGRADE_REPORT.md lists, once written
    repo_pc,           \* position in the run: call, start, copy, analyze,
                       \* loop, reported, returned, or the exception that
                       \* ended it
    verify_runtime_outputs,    \* upgrade_repo's argument
    baseline_engine,   \* what the runtime validation engine does on the
                       \* baseline project (see BaselineOutcomes)
    entered,           \* the mode functions upgrade_repo has called
    baseline_outputs_captured, \* baseline_outputs_captured
    calls,             \* the validations and the copy made so far, in order
    environ,           \* os.environ's ML_UPGRADER_PROJECT_ROOT, the value the
                       \* run found in it, and whether the temporary
                       \* baseline directory exists
    project,           \* the project and arguments of the validation calls
    disk,              \* the files the validation engine reads and writes
    validation,        \* the locals of the validation call in progress
    finished,          \* the validation calls that returned, in order
    capture_pair,      \* the capture directories _compare_runtime_outputs reads
    comparison         \* what _compare_runtime_outputs returned

sortVars == <<dependency_graph, insertion, graph, sorted_files, no_deps,
              main_count, sort_pc>>

fileVars == <<upgrade_fn, MAX_RETRIES, input_kind, loop, file_pc>>

repoVars == <<mode, special, ordered_files, index, running, results,
              upgraded_cache, dependency_context, max_workers, report,
              repo_pc, verify_runtime_outputs, baseline_engine, entered,
              baseline_outputs_captured, calls, environ>>

validationVars == <<project, disk, validation, finished>>

compareVars == <<capture_pair, comparison>>

vars == <<sortVars, fileVars, repoVars, validationVars, compareVars>>

\* What each operation leaves alone: the other operations' variables.
sortFrame == <<fileVars, repoVars, validationVars, compareVars>>
fileFrame == <<sortVars, repoVars, validationVars, compareVars>>
repoFrame == <<dependency_graph, insertion, graph, sorted_files, no_deps,
               main_count, sort_pc, MAX_RETRIES, input_kind, loop, file_pc,
               mode, special, max_workers, verify_runtime_outputs,
               baseline_engine, entered, baseline_outputs_captured,
               project, disk, validation, finished, capture_pair, comparison>>
validationFrame == <<sortVars, fileVars, repoVars, compareVars>>
compareFrame == <<sortVars, fileVars, repoVars, validationVars>>

\* get_upgrade_order is called on an analysed repository; no file upgrade
\* is in progress.
SortInit ==
    /\ dependency_graph \in DependencyGraphs
    /\ insertion \in InsertionOrders
    /\ graph = [f \in Files |-> {}]
    /\ sorted_files = <<>>
    /\ no_deps = <<>>
    /\ main_count = 0
    /\ sort_pc = "start"
    /\ upgrade_fn = "upgrade_file"
    /\ MAX_RETRIES = 0
    /\ input_kind = "text"
    /\ loop = LoopEntry("ok")
    /\ file_pc = "idle"
    /\ mode = "sequential"
    /\ special = {}
    /\ ordered_files = <<>>
    /\ index = 0
    /\ running = {}
    /\ results = <<>>
    /\ upgraded_cache = {}
    /\ dependency_context = {}
    /\ max_workers = 1
    /\ report = <<>>
    /\ repo_pc = "idle"
    /\ verify_runtime_outputs = FALSE
    /\ baseline_engine = "no_command"
    /\ entered = {}
    /\ baseline_outputs_captured = FALSE
    /\ environ = NoEnviron
    /\ calls = <<>>
    /\ project = NoProject
    /\ disk = NoDisk
    /\ validation = NoValidation
    /\ finished = <<>>
    /\ capture_pair = NoCapturePair
    /\ comparison = NotCompared

\* Lines 264-270: copy the graph, collect the files without dependencies.
SortStart ==
    /\ sort_pc = "start"
    /\ graph' = dependency_graph
    /\ sorted_files' = <<>>
    /\ no_deps' = NodesWhere(insertion, dependency_graph, TRUE)
    /\ sort_pc' = "loop"
    /\ UNCHANGED <<dependency_graph, insertion, main_count>>
    /\ UNCHANGED sortFrame

\* Lines 272-288: one iteration of `while no_deps`.
SortLoop ==
    /\ sort_pc = "loop"
    /\ no_deps # <<>>
    /\ LET st == LoopStep(insertion,
                   [graph |-> graph, sorted_files |-> sorted_files, no_deps |-> no_deps])
       IN  /\ graph' = st.graph
           /\ sorted_files' = st.sorted_files
           /\ no_deps' = st.no_deps
    /\ main_count' = main_count + 1
    /\ UNCHANGED <<dependency_graph, insertion, sort_pc>>
    /\ UNCHANGED sortFrame

\* Lines 290-303: the loop is over; append the remaining files and return.
SortFinish ==
    /\ sort_pc = "loop"
    /\ no_deps = <<>>
    /\ sorted_files' = AppendRemaining(insertion,
                         [graph |-> graph, sorted_files |-> sorted_files])
    /\ sort_pc' = "done"
    /\ UNCHANGED <<dependency_graph, insertion, graph, no_deps, main_count>>
    /\ UNCHANGED sortFrame

SortNext == SortStart \/ SortLoop \/ SortFinish

SortSpec == SortInit /\ [][SortNext]_vars

\* ------------------------------------------------ upgrade_file, step by step

\* One call of upgrade_file or upgrade_file_with_context; no sort is running.
FileInit ==
    /\ upgrade_fn \in UpgradeFunctions
    /\ MAX_RETRIES \in RetryCeilings
    /\ input_kind \in InputKinds
    /\ loop = LoopEntry("ok")
    /\ file_pc = "start"
    /\ dependency_graph = [f \in Files |-> {}]
    /\ insertion = [i \in 1..NumFiles |-> i]
    /\ graph = [f \in Files |-> {}]
    /\ sorted_files = <<>>
    /\ no_deps = <<>>
    /\ main_count = 0
    /\ sort_pc = "idle"
    /\ mode = "sequential"
    /\ special = {}
    /\ ordered_files = <<>>
    /\ index = 0
    /\ running = {}
    /\ results = <<>>
    /\ upgraded_cache = {}
    /\ dependency_context = {}
    /\ max_workers = 1
    /\ report = <<>>
    /\ repo_pc = "idle"
    /\ verify_runtime_outputs = FALSE
    /\ baseline_engine = "no_command"
    /\ entered = {}
    /\ baseline_outputs_captured = FALSE
    /\ environ = NoEnviron
    /\ calls = <<>>
    /\ project = NoProject
    /\ disk = NoDisk
    /\ validation = NoValidation
    /\ finished = <<>>
    /\ capture_pair = NoCapturePair
    /\ comparison = NotCompared

\* Lines 24-44: the file is missing or skipped: a result with 0 attempts.
FileNotUpgradable ==
    /\ file_pc = "start"
    /\ input_kind \in {"missing", "skipped"}
    /\ loop' = [loop EXCEPT !.result =
                   FileUpgradeResult(FALSE, 0,
                       IF input_kind = "missing" THEN "Input file not found"
                       ELSE "Skipped")]
    /\ file_pc' = "done"
    /\ UNCHANGED <<upgrade_fn, MAX_RETRIES, input_kind>>
    /\ UNCHANGED fileFrame

\* Line 46: read_file raises (outside any try): the call raises.
FileReadRaises ==
    /\ file_pc = "start"
    /\ input_kind = "unreadable"
    /\ file_pc' = "raised"
    /\ UNCHANGED <<upgrade_fn, MAX_RETRIES, input_kind, loop>>
    /\ UNCHANGED fileFrame

\* Lines 46-55: read the file, run the precheck, enter the loop.
FilePrecheck ==
    /\ file_pc = "start"
    /\ input_kind = "text"
    /\ \E precheck \in Prechecks : loop' = LoopEntry(precheck)
    /\ file_pc' = "loop"
    /\ UNCHANGED <<upgrade_fn, MAX_RETRIES, input_kind>>
    /\ UNCHANGED fileFrame

\* Lines 57-101: one attempt.
FileAttempt ==
    /\ file_pc = "loop"
    /\ loop.attempt < MAX_RETRIES
    /\ \E response \in Responses, fault \in Faults :
          loop' = AttemptStep(upgrade_fn, loop, response, fault)
    /\ file_pc' = IF loop'.result.kind = "result" THEN "done" ELSE "loop"
    /\ UNCHANGED <<upgrade_fn, MAX_RETRIES, input_kind>>
    /\ UNCHANGED fileFrame

\* Lines 103-112: no attempt is left.
FileExhausted ==
    /\ file_pc = "loop"
    /\ loop.attempt >= MAX_RETRIES
    /\ loop' = [loop EXCEPT !.result = Exhausted(loop, MAX_RETRIES)]
    /\ file_pc' = "done"
    /\ UNCHANGED <<upgrade_fn, MAX_RETRIES, input_kind>>
    /\ UNCHANGED fileFrame

FileNext ==
    FileNotUpgradable \/ FileReadRaises \/ FilePrecheck \/ FileAttempt \/ FileExhausted

FileSpec == FileInit /\ [][FileNext]_vars

\* What perform_project_runtime_validation does on the baseline project:
\*   captured    a runtime command is configured and succeeds; the outputs
\*               are stored in the capture directory
\*   no_command  no runtime command is configured: success, nothing stored
\*   failed      the engine reports a failure
BaselineOutcomes == {"captured", "no_command", "failed"}

ModeFunctions == {"upgrade_repo_with_dependency_awareness", "upgrade_repo_parallel"}

Dispatched_BothModes(m) == ModeFunctions

\* upgrade_repo, lines 524-537: the mode function called for
\* use_dependency_order (TRUE: sequential, FALSE: parallel).
Dispatched(m) ==
    IF m = "sequential" THEN {"upgrade_repo_with_dependency_awareness"}
    ELSE {"upgrade_repo_parallel"}

\* A call recorded in calls: the function, the project it works on, the
\* capture and comparison directories passed ("none" for None), and whether
\* it reported success.
Call(fn, project_root, capture, compare, ok) ==
    [fn |-> fn, project |-> project_root, capture |-> capture, compare |-> compare,
     ok |-> ok]

BaselineNext_IgnoresFailure(engine) == "copy"

\* Lines 98-100: a baseline validation that is not ok raises RuntimeError.
BaselineNext(engine) == IF engine = "failed" THEN "RuntimeError" ELSE "copy"

\* validator.validate_repository(root_path) takes no keyword argument
\* (validator.py line 134).
ValidateRepositoryKeywords == {}

\* The keyword arguments upgrade_repo passes to validate_repository
\* (lines 246-250).
PassedKeywords == {"runtime_output_dir", "runtime_compare_dir"}


\* ------------------------------------------------ upgrade_repo, step by step

\* One run of upgrade_repo on a copied repository, in either mode; the
\* parallel mode does not analyse dependencies.
RepoInit ==
    /\ mode \in UpgradeModes
    /\ dependency_graph \in (IF mode = "sequential" THEN RepoGraphs ELSE {GraphOf({})})
    /\ insertion \in WalkOrders
    /\ special \in SpecialFileSets(dependency_graph)
    /\ max_workers \in (IF mode = "parallel" THEN 0..MaxWorkers ELSE {1})
    /\ MAX_RETRIES = MaxRetries
    /\ upgrade_fn = "upgrade_file"
    /\ ordered_files = <<>>
    /\ index = 0
    /\ running = {}
    /\ results = <<>>
    /\ upgraded_cache = {}
    /\ dependency_context = {}
    /\ report = <<>>
    /\ repo_pc = "call"
    /\ verify_runtime_outputs \in BOOLEAN
    /\ baseline_engine \in (IF verify_runtime_outputs THEN BaselineOutcomes
                            ELSE {"no_command"})
    /\ entered = {}
    /\ baseline_outputs_captured = FALSE
    /\ environ \in Environs(dependency_graph)
    /\ calls = <<>>
    /\ graph = [f \in Files |-> {}]
    /\ sorted_files = <<>>
    /\ no_deps = <<>>
    /\ main_count = 0
    /\ sort_pc = "idle"
    /\ input_kind = "text"
    /\ loop = LoopEntry("ok")
    /\ file_pc = "idle"
    /\ project = NoProject
    /\ disk = NoDisk
    /\ validation = NoValidation
    /\ finished = <<>>
    /\ capture_pair = NoCapturePair
    /\ comparison = NotCompared

\* The file the loop is at.
CurrentFile == ordered_files[index + 1]

\* The files whose upgrade has ended: those with a result.
FinishedFiles == {results[i].file_path : i \in DOMAIN results}

\* upgrade_repo, lines 524-537: call the mode function, which reads
\* ML_UPGRADER_PROJECT_ROOT into previous_project_root (lines 62 / 297).
RepoDispatch ==
    /\ repo_pc = "call"
    /\ entered' = entered \cup Dispatched(mode)
    /\ repo_pc' = "start"
    /\ environ' = [environ EXCEPT !.previous_project_root = environ.project_root]
    /\ UNCHANGED <<sortVars, fileVars, validationVars, compareVars, mode, special, ordered_files, index,
                   running, results, upgraded_cache, dependency_context,
                   max_workers, report, verify_runtime_outputs,
                   baseline_engine, baseline_outputs_captured, calls>>

\* Lines 81-111 / 316-346: with verification, copy the old repository to a
\* temporary directory and run the runtime validation on it, capturing to
\* the baseline directory; a reported failure raises RuntimeError.
RepoBaseline ==
    /\ repo_pc = "start"
    /\ IF verify_runtime_outputs
       THEN /\ calls' = Append(calls,
                   Call("perform_project_runtime_validation", "baseline_project",
                        "baseline_output_dir", "none", baseline_engine # "failed"))
            /\ repo_pc' = BaselineNext(baseline_engine)
            /\ baseline_outputs_captured' = (baseline_engine = "captured")
            /\ environ' = Finally([environ EXCEPT !.baseline_temp_dir = TRUE,
                                                  !.project_root = "baseline_project"],
                                  repo_pc')
       ELSE /\ calls' = calls
            /\ repo_pc' = "copy"
            /\ baseline_outputs_captured' = baseline_outputs_captured
            /\ environ' = environ
    /\ UNCHANGED <<sortVars, fileVars, validationVars, compareVars, mode, special, ordered_files, index,
                   running, results, upgraded_cache, dependency_context,
                   max_workers, report, verify_runtime_outputs,
                   baseline_engine, entered>>

\* Lines 113-136 / 348-371: remove new_repo, copy the old repository to it,
\* update the dependency manifests.
RepoCopy ==
    /\ repo_pc = "copy"
    /\ calls' = Append(calls, Call("copytree", "new_repo", "none", "none", TRUE))
    /\ repo_pc' = "analyze"
    /\ environ' = [environ EXCEPT !.project_root = "new_repo"]
    /\ UNCHANGED <<sortVars, fileVars, validationVars, compareVars, mode, special, ordered_files, index,
                   running, results, upgraded_cache, dependency_context,
                   max_workers, report, verify_runtime_outputs,
                   baseline_engine, entered, baseline_outputs_captured>>

\* upgrade_repo_with_dependency_awareness, lines 138-157: analyse the
\* repository and take the upgrade order.
SeqAnalyze ==
    /\ repo_pc = "analyze"
    /\ "upgrade_repo_with_dependency_awareness" \in entered
    /\ ordered_files' = get_upgrade_order(insertion, dependency_graph)
    /\ repo_pc' = "loop"
    /\ UNCHANGED <<index, running, results, upgraded_cache,
                   dependency_context, report, upgrade_fn>>
    /\ UNCHANGED <<repoFrame, calls>>
    /\ environ' = Finally(environ, repo_pc')

\* Lines 159-174: the loop passes over a special file (continue).
SeqSkipFile ==
    /\ repo_pc = "loop"
    /\ mode = "sequential"
    /\ running = {}
    /\ index < Len(ordered_files)
    /\ CurrentFile \in special
    /\ index' = index + 1
    /\ UNCHANGED <<ordered_files, running, results, upgraded_cache,
                   dependency_context, report, repo_pc, upgrade_fn>>
    /\ UNCHANGED <<repoFrame, calls>>
    /\ environ' = Finally(environ, repo_pc')

run_runtime_Default == TRUE

\* agentic_upgrader.py lines 50 and 78 (162 and 191 in
\* upgrade_file_with_context): validate_code is called with
\* run_runtime=False.
run_runtime == FALSE

\* validator.validate_code, lines 121-124: with run_runtime the validation
\* of a file calls perform_runtime_validation, which runs the runtime
\* validation of the file's project; the call is made by whoever upgrades
\* the file.
UpgradeCalls(cs, file_path) ==
    IF run_runtime
    THEN Append(cs, Call("perform_runtime_validation", file_path, "none", "none", TRUE))
    ELSE cs

\* Lines 176-198: build the context from the dependencies in upgraded_cache
\* that have an interface summary, and call upgrade_file_with_context when
\* there is one, upgrade_file otherwise.
SeqStartFile ==
    /\ repo_pc = "loop"
    /\ mode = "sequential"
    /\ running = {}
    /\ index < Len(ordered_files)
    /\ CurrentFile \notin special
    /\ dependency_context' \in
          SUBSET ContextCandidates(dependency_graph, CurrentFile, upgraded_cache)
    /\ upgrade_fn' = IF dependency_context' # {}
                     THEN "upgrade_file_with_context" ELSE "upgrade_file"
    /\ running' = {CurrentFile}
    /\ UNCHANGED <<ordered_files, index, results, upgraded_cache, report, repo_pc>>
    /\ UNCHANGED <<repoFrame, calls>>
    /\ environ' = Finally(environ, repo_pc')

\* Lines 198-223: the call returns or raises; the result is added, a
\* successful file enters upgraded_cache, the loop moves on.
SeqFinishFile ==
    /\ repo_pc = "loop"
    /\ mode = "sequential"
    /\ running # {}
    /\ running = {CurrentFile}
    /\ \E outcome \in UpgradeOutcomes :
          /\ results' = AddOutcome(results, CurrentFile, outcome, MAX_RETRIES)
          /\ upgraded_cache' = IF outcome = "upgraded"
                               THEN upgraded_cache \cup {CurrentFile}
                               ELSE upgraded_cache
    /\ calls' = UpgradeCalls(calls, CurrentFile)
    /\ running' = {}
    /\ index' = index + 1
    /\ UNCHANGED <<ordered_files, dependency_context, report, repo_pc,
                   upgrade_fn>>
    /\ UNCHANGED repoFrame
    /\ environ' = Finally(environ, repo_pc')

\* upgrade_repo_parallel, lines 373-424: collect the files in os.walk's
\* order and create the pool; ThreadPoolExecutor raises ValueError when
\* max_workers is not positive.
ParCollect ==
    /\ repo_pc = "analyze"
    /\ "upgrade_repo_parallel" \in entered
    /\ ordered_files' = insertion
    /\ repo_pc' = IF max_workers <= 0 THEN "ValueError" ELSE "loop"
    /\ UNCHANGED <<index, running, results, upgraded_cache,
                   dependency_context, report, upgrade_fn>>
    /\ UNCHANGED <<repoFrame, calls>>
    /\ environ' = Finally(environ, repo_pc')

WorkerFree_Unbounded == TRUE

\* Line 424: ThreadPoolExecutor(max_workers=max_workers) runs a submitted
\* task when one of its max_workers threads is idle.
WorkerFree == Cardinality(running) < max_workers

\* Lines 392-408, 426-431: a worker takes the next file, a special one:
\* process_single_file returns None and nothing is added.
ParSkipFile ==
    /\ repo_pc = "loop"
    /\ mode = "parallel"
    /\ WorkerFree
    /\ index < Len(ordered_files)
    /\ CurrentFile \in special
    /\ index' = index + 1
    /\ UNCHANGED <<ordered_files, running, results, upgraded_cache,
                   dependency_context, report, repo_pc, upgrade_fn>>
    /\ UNCHANGED <<repoFrame, calls>>
    /\ environ' = Finally(environ, repo_pc')

\* Lines 392-410: a free worker takes the next file and calls upgrade_file.
ParStartFile ==
    /\ repo_pc = "loop"
    /\ mode = "parallel"
    /\ WorkerFree
    /\ index < Len(ordered_files)
    /\ CurrentFile \notin special
    /\ running' = running \cup {CurrentFile}
    /\ index' = index + 1
    /\ UNCHANGED <<ordered_files, results, upgraded_cache,
                   dependency_context, report, repo_pc, upgrade_fn>>
    /\ UNCHANGED <<repoFrame, calls>>
    /\ environ' = Finally(environ, repo_pc')

\* Lines 410-420, 426-431: a worker's call returns or raises; as_completed
\* hands the result to the main thread, which adds it.
ParFinishFile ==
    /\ repo_pc = "loop"
    /\ mode = "parallel"
    /\ \E file_path \in running, outcome \in UpgradeOutcomes :
          /\ results' = AddOutcome(results, file_path, outcome, MAX_RETRIES)
          /\ running' = running \ {file_path}
          /\ calls' = UpgradeCalls(calls, file_path)
    /\ UNCHANGED <<ordered_files, index, upgraded_cache, dependency_context,
                   report, repo_pc, upgrade_fn>>
    /\ UNCHANGED repoFrame
    /\ environ' = Finally(environ, repo_pc')

\* Lines 232-238 / 448-454: generate_report; with no result its summary
\* line divides by len(self.results) (report_generator.py line 50).
RepoReport ==
    /\ repo_pc = "loop"
    /\ index = Len(ordered_files)
    /\ running = {}
    /\ IF results = <<>>
       THEN /\ repo_pc' = "ZeroDivisionError"
            /\ report' = report
       ELSE /\ repo_pc' = "reported"
            /\ report' = results
    /\ UNCHANGED <<ordered_files, index, running, results, upgraded_cache,
                   dependency_context, upgrade_fn>>
    /\ UNCHANGED <<repoFrame, calls>>
    /\ environ' = Finally(environ, repo_pc')

\* Lines 240-268 / 456-484: when there are results and all are successes,
\* validator.validate_repository is called with the capture directory of
\* the upgraded run (with verification) and the baseline directory as
\* comparison directory (with verification and a captured baseline).  The
\* function does not take these keyword arguments: the call raises
\* TypeError before its body runs.  (Lines 252-261: a validation that is
\* not ok raises RuntimeError.)  Without the call the run returns the
\* report path.
RepoValidate ==
    /\ repo_pc = "reported"
    /\ IF results # <<>> /\ \A i \in DOMAIN results : results[i].success
       THEN IF PassedKeywords \subseteq ValidateRepositoryKeywords
            THEN \E runtime_ok \in BOOLEAN :
                 /\ calls' = Append(calls,
                        Call("validate_repository", "new_repo",
                             IF verify_runtime_outputs
                             THEN "upgraded_output_dir" ELSE "none",
                             IF verify_runtime_outputs /\ baseline_outputs_captured
                             THEN "baseline_output_dir" ELSE "none",
                             runtime_ok))
                 /\ repo_pc' = IF runtime_ok THEN "returned" ELSE "RuntimeError"
            ELSE /\ calls' = calls
                 /\ repo_pc' = "TypeError"
       ELSE /\ calls' = calls
            /\ repo_pc' = "returned"
    /\ UNCHANGED <<ordered_files, index, running, results, upgraded_cache,
                   dependency_context, report, upgrade_fn>>
    /\ UNCHANGED repoFrame
    /\ environ' = Finally(environ, repo_pc')

RepoNext ==
    \/ RepoDispatch \/ RepoBaseline \/ RepoCopy
    \/ SeqAnalyze \/ SeqSkipFile \/ SeqStartFile \/ SeqFinishFile
    \/ ParCollect \/ ParSkipFile \/ ParStartFile \/ ParFinishFile
    \/ RepoReport \/ RepoValidate

RepoSpec == RepoInit /\ [][RepoNext]_vars

\* ---------------------------------- perform_project_runtime_validation

\* Consecutive calls of perform_project_runtime_validation on one project
\* and one environment, a fresh one or one whose interpreter exists.
ValidationInit ==
    /\ project \in Projects
    /\ disk \in [venv_python : BOOLEAN, marker : {NoMarker},
                 requirements : OriginalHashMaps]
    /\ validation = EnterCall(1, disk.requirements)
    /\ finished = <<>>
    /\ dependency_graph = [f \in Files |-> {}]
    /\ insertion = [i \in 1..NumFiles |-> i]
    /\ graph = [f \in Files |-> {}]
    /\ sorted_files = <<>>
    /\ no_deps = <<>>
    /\ main_count = 0
    /\ sort_pc = "idle"
    /\ upgrade_fn = "upgrade_file"
    /\ MAX_RETRIES = 0
    /\ input_kind = "text"
    /\ loop = LoopEntry("ok")
    /\ file_pc = "idle"
    /\ mode = "sequential"
    /\ special = {}
    /\ ordered_files = <<>>
    /\ index = 0
    /\ running = {}
    /\ results = <<>>
    /\ upgraded_cache = {}
    /\ dependency_context = {}
    /\ max_workers = 1
    /\ report = <<>>
    /\ repo_pc = "idle"
    /\ verify_runtime_outputs = FALSE
    /\ baseline_engine = "no_command"
    /\ entered = {}
    /\ baseline_outputs_captured = FALSE
    /\ environ = NoEnviron
    /\ calls = <<>>
    /\ capture_pair = NoCapturePair
    /\ comparison = NotCompared

\* perform_project_runtime_validation, lines 49-57 and 87-90: the project
\* root must exist and the settings must resolve; without a command the
\* call returns success at once.
ResolveSettings ==
    /\ validation.pc = "call"
    /\ \E output_capture_dir \in BOOLEAN, compare_with_dir \in BOOLEAN :
       validation' =
         IF ~project.root_is_dir
         THEN Return(validation, FALSE, "Project root not found")
         ELSE IF ConfigError(project) # None
         THEN Return(validation, FALSE, ConfigError(project))
         ELSE IF ResolvedCommand(project) = None
         THEN Return([validation EXCEPT
                          !.output_capture_dir = output_capture_dir,
                          !.compare_with_dir = compare_with_dir],
                     TRUE, None)
         ELSE [validation EXCEPT !.pc = "venv"]
    /\ UNCHANGED <<project, disk, finished>>
    /\ UNCHANGED validationFrame

\* _run_runtime_validation, lines 636-654: create the virtual environment
\* when its interpreter is missing; a failure ends the run.
CreateVirtualenv ==
    /\ validation.pc = "venv"
    /\ IF disk.venv_python
       THEN /\ validation' = [validation EXCEPT !.pc = "install"]
            /\ disk' = disk
       ELSE \E create_result \in SubprocessEndings(timeout_of("create_virtualenv")) :
            LET ran == [validation EXCEPT !.venv_creations = @ + 1]
            IN  /\ disk' = [disk EXCEPT !.venv_python = ExitedZero(create_result)]
                /\ validation' =
                     IF create_result = "never_exits"
                     THEN Blocked(ran, "create_virtualenv")
                     ELSE IF create_result = "timed_out"
                     THEN Failed(ran, "Virtual environment creation timed out")
                     ELSE IF ~ExitedZero(create_result)
                     THEN Failed(ran, "Failed to create virtual environment")
                     ELSE [ran EXCEPT !.pc = "install"]
    /\ UNCHANGED <<project, finished>>
    /\ UNCHANGED validationFrame

\* Where the run goes after the install step: to the setup commands, if
\* any, else to the runtime command.
AfterInstall == IF project.setup_commands > 0 THEN "setup" ELSE "command"

\* Lines 672-690 and _ensure_dependencies_installed, lines 793-897: skipped
\* by configuration, skipped because the marker is current, or run; the
\* marker is saved on success only, and _save_marker swallows OSError.
EnsureDependenciesInstalled ==
    /\ validation.pc = "install"
    /\ LET requirement_hashes == disk.requirements
           install_needed == project.force_reinstall
                             \/ requirement_hashes # disk.marker.requirements_hashes
           run_editable == project.editable_sources_present
                           /\ (project.force_reinstall
                               \/ ~disk.marker.editable_installed)
       IN  IF \/ project.skip_install
              \/ InstallSkipped(project.force_reinstall, requirement_hashes,
                                disk.marker, project.editable_sources_present)
           THEN /\ validation' = [validation EXCEPT !.pc = AfterInstall]
                /\ disk' = disk
           ELSE \E install \in DependencyInstalls(install_needed,
                                                  normalized_files(requirement_hashes),
                                                  run_editable),
                   marker_saved \in BOOLEAN :
                LET written == /\ ~install.blocked
                               /\ MarkerWritten(install.success)
                               /\ marker_saved
                    ran == [validation EXCEPT !.install_ok = install.success,
                                              !.install_log = install.log,
                                              !.marker_saved = written,
                                              !.install_steps = @ + 1]
                IN  /\ validation' =
                         IF install.blocked
                         THEN Blocked(ran, install.log[Len(install.log)][1])
                         ELSE [ran EXCEPT !.pc = AfterInstall]
                    /\ disk' =
                         IF written
                         THEN [disk EXCEPT !.marker =
                                 [requirements_hashes |-> requirement_hashes,
                                  editable_installed |->
                                      run_editable \/ disk.marker.editable_installed]]
                         ELSE disk
    /\ UNCHANGED <<project, finished>>
    /\ UNCHANGED validationFrame

\* Lines 699-723: the next setup command; a time-out or a non-zero exit
\* ends the run before the runtime command.
RunSetupCommand ==
    /\ validation.pc = "setup"
    /\ \E setup_result \in SubprocessEndings(timeout_of("setup_command")) :
       LET raw_setup == setup_command_kind(validation.setup_index + 1)
           setup_shell == prepare_command(raw_setup, project.shell_preference)
           ran == [validation EXCEPT
                       !.setup_index = @ + 1,
                       !.setup_log = Append(@, <<raw_setup, setup_shell,
                                                 runtime_directory, setup_result>>)]
       IN  validation' =
             IF setup_result = "timed_out"
             THEN Failed(ran, "Setup command timed out before runtime execution")
             ELSE IF ExitedNonZero(setup_result)
             THEN Failed(ran, "Setup command failed before runtime execution")
             ELSE IF ran.setup_index < project.setup_commands
             THEN ran
             ELSE [ran EXCEPT !.pc = "command"]
    /\ UNCHANGED <<project, disk, finished>>
    /\ UNCHANGED validationFrame

\* Lines 725-751 and 773-790: run the runtime command. It succeeds when
\* the install step did and the command exited with status 0; a failure is
\* final unless the automatic recovery applies.
RunRuntimeCommand ==
    /\ validation.pc = "command"
    /\ \E runtime_result \in RuntimeResults :
       LET ran == [validation EXCEPT !.runtime_result = runtime_result,
                                     !.final_result = runtime_result,
                                     !.executions = @ + 1]
       IN  validation' =
             IF validation.install_ok /\ ExitedZero(runtime_result.ended)
             THEN Succeeded(ran)
             ELSE IF AutoRecoverable(validation.install_ok, project.skip_install,
                                     runtime_result)
             THEN [ran EXCEPT !.pc = "auto_install",
                              !.auto_install_attempted = TRUE,
                              !.auto_install_cmd =
                                  extract_missing_module(runtime_result.log)]
             ELSE Failed(ran, FailureReason(runtime_result, validation.install_ok))
    /\ UNCHANGED <<project, disk, finished>>
    /\ UNCHANGED validationFrame

\* Lines 752-756 and 773-790: pip install of the missing module; the
\* command is retried only when this install exited with status 0.
AutoInstall ==
    /\ validation.pc = "auto_install"
    /\ \E auto_install_result \in SubprocessEndings(timeout_of("auto_install")) :
       LET ran == [validation EXCEPT !.auto_installs = @ + 1,
                                     !.auto_install_result = auto_install_result]
       IN  validation' =
             IF auto_install_result = "never_exits"
             THEN Blocked(ran, "auto_install")
             ELSE IF ExitedZero(auto_install_result)
             THEN [ran EXCEPT !.pc = "retry"]
             ELSE Failed(ran, FailureReason(ran.final_result, ran.install_ok))
    /\ UNCHANGED <<project, disk, finished>>
    /\ UNCHANGED validationFrame

\* Lines 757-790: the one retry of the runtime command; its result is final.
RetryRuntimeCommand ==
    /\ validation.pc = "retry"
    /\ \E retry_result \in RuntimeResults :
       LET ran == [validation EXCEPT !.final_result = retry_result,
                                     !.executions = @ + 1]
       IN  validation' =
             IF ExitedZero(retry_result.ended)
             THEN Succeeded(ran)
             ELSE Failed(ran, FailureReason(retry_result, ran.install_ok))
    /\ UNCHANGED <<project, disk, finished>>
    /\ UNCHANGED validationFrame

\* perform_project_runtime_validation, lines 72-90: store the outputs when
\* a capture directory is given, report a failed run, compare with the
\* baseline when a comparison directory is given.
StoreAndCompare ==
    /\ validation.pc = "store"
    /\ \E output_capture_dir \in BOOLEAN, compare_with_dir \in BOOLEAN,
          store_ok \in BOOLEAN, match \in BOOLEAN :
       LET given == [validation EXCEPT
                         !.output_capture_dir = output_capture_dir,
                         !.compare_with_dir = compare_with_dir]
           stored == IF output_capture_dir
                     THEN [given EXCEPT !.store_calls = @ + 1,
                                        !.capture_dir = store_ok]
                     ELSE given
       IN  validation' =
             IF output_capture_dir /\ ~store_ok
             THEN Return(stored, FALSE, "store_error")
             ELSE IF ~validation.success
             THEN Return(stored, FALSE, validation.reason)
             ELSE IF compare_with_dir /\ ~output_capture_dir
             THEN Return(stored, FALSE,
                    "Runtime output comparison requested without capture directory")
             ELSE IF compare_with_dir /\ ~match
             THEN Return(stored, FALSE, "compare_error")
             ELSE Return(stored, TRUE, None)
    /\ UNCHANGED <<project, disk, finished>>
    /\ UNCHANGED validationFrame

\* A manifest file is edited between two calls: its content hash changes.
EditManifest ==
    /\ validation.pc = "returned"
    /\ validation.call < Len(ValidationCalls)
    /\ \E file \in DOMAIN disk.requirements :
       /\ disk.requirements[file] = "sha256 of the original"
       /\ disk' = [disk EXCEPT !.requirements[file] = "sha256 of the edit"]
    /\ UNCHANGED <<project, validation, finished>>
    /\ UNCHANGED validationFrame

\* The next call on the same project and environment.
NextValidationCall ==
    /\ validation.pc = "returned"
    /\ validation.call < Len(ValidationCalls)
    /\ finished' = Append(finished, Summary(validation))
    /\ validation' = EnterCall(validation.call + 1, disk.requirements)
    /\ UNCHANGED <<project, disk>>
    /\ UNCHANGED validationFrame

ValidationNext ==
    \/ ResolveSettings \/ CreateVirtualenv \/ EnsureDependenciesInstalled
    \/ RunSetupCommand \/ RunRuntimeCommand \/ AutoInstall
    \/ RetryRuntimeCommand \/ StoreAndCompare
    \/ EditManifest \/ NextValidationCall

ValidationSpec == ValidationInit /\ [][ValidationNext]_vars

\* ------------------------------------------- _compare_runtime_outputs

\* One call of _compare_runtime_outputs on a pair of capture directories.
CompareInit ==
    /\ capture_pair \in CapturePairs
    /\ comparison = NotCompared
    /\ project = NoProject
    /\ disk = NoDisk
    /\ validation = NoValidation
    /\ finished = <<>>
    /\ dependency_graph = [f \in Files |-> {}]
    /\ insertion = [i \in 1..NumFiles |-> i]
    /\ graph = [f \in Files |-> {}]
    /\ sorted_files = <<>>
    /\ no_deps = <<>>
    /\ main_count = 0
    /\ sort_pc = "idle"
    /\ upgrade_fn = "upgrade_file"
    /\ MAX_RETRIES = 0
    /\ input_kind = "text"
    /\ loop = LoopEntry("ok")
    /\ file_pc = "idle"
    /\ mode = "sequential"
    /\ special = {}
    /\ ordered_files = <<>>
    /\ index = 0
    /\ running = {}
    /\ results = <<>>
    /\ upgraded_cache = {}
    /\ dependency_context = {}
    /\ max_workers = 1
    /\ report = <<>>
    /\ repo_pc = "idle"
    /\ verify_runtime_outputs = FALSE
    /\ baseline_engine = "no_command"
    /\ entered = {}
    /\ baseline_outputs_captured = FALSE
    /\ environ = NoEnviron
    /\ calls = <<>>

\* _compare_runtime_outputs, lines 1083-1181; the sets of variants are
\* iterated in an order the interpreter chooses.
CompareRuntimeOutputs ==
    /\ comparison = NotCompared
    /\ \E baseline_order \in IterationOrders(variants(capture_pair.baseline.project_root)),
          current_order \in IterationOrders(variants(capture_pair.current.project_root)) :
          comparison' = compare_runtime_outputs(capture_pair, baseline_order,
                                                current_order)
    /\ UNCHANGED capture_pair
    /\ UNCHANGED compareFrame

CompareNext == CompareRuntimeOutputs

CompareSpec == CompareInit /\ [][CompareNext]_vars

Spec == SortSpec

\* ------------------------------------------------- properties of the order

\* The position of file x in sequence s (0 when absent).
PosIn(s, x) == IF \E i \in DOMAIN s : s[i] = x
               THEN CHOOSE i \in DOMAIN s : s[i] = x ELSE 0

PlacedBefore(s, a, b) == PosIn(s, a) # 0 /\ PosIn(s, b) # 0 /\ PosIn(s, a) < PosIn(s, b)

\* The files f reaches through one or more import edges between graph nodes.
RECURSIVE ReachIn(_, _, _)
ReachIn(dg, frontier, k) ==
    IF k = 0 THEN frontier
    ELSE ReachIn(dg, frontier \cup UNION {dg[n] \cap Files : n \in frontier}, k - 1)

TransitiveDeps(dg, f) == ReachIn(dg, dg[f] \cap Files, NumFiles)

\* Some file imports itself, directly or through other files.
HasCycle(dg) == \E f \in Files : f \in TransitiveDeps(dg, f)

\* A file that lies on a cycle or transitively depends on one.
CycleBound(dg, f) ==
    \E c \in Files : c \in TransitiveDeps(dg, c) /\ (c = f \/ c \in TransitiveDeps(dg, f))

NoDuplicates(s) == \A i, j \in DOMAIN s : i # j => s[i] # s[j]

Ascending(s) == \A i, j \in DOMAIN s : i < j => s[i] < s[j]

\* C1 (as claimed): for every acyclic dependency graph, the returned order
\* places every dependency (that is itself a file of the order) before each
\* file that depends on it.
C1_DepsFirstWhenAcyclic ==
    (sort_pc = "done" /\ ~HasCycle(dependency_graph)) =>
        \A f \in Files : \A d \in dependency_graph[f] \cap Files :
            PlacedBefore(sorted_files, d, f)

\* C2 (as claimed): for every dependency graph, every file f and every
\* dependency d of f that does not transitively depend on f: d appears
\* before f in the returned order.
C2_DepsFirstWheneverPossible ==
    sort_pc = "done" =>
        \A f \in Files : \A d \in dependency_graph[f] \cap Files :
            (d # f /\ f \notin TransitiveDeps(dependency_graph, d)) =>
                PlacedBefore(sorted_files, d, f)

\* C3: the result list never holds a file twice, and the returned order
\* holds every file of the graph exactly once, whatever the graph (cycles,
\* self-imports and imports of files that are not nodes included).
C3_OrderIsPermutation ==
    /\ NoDuplicates(sorted_files)
    /\ Range(sorted_files) \subseteq Files
    /\ sort_pc = "done" =>
          (Len(sorted_files) = NumFiles /\ Range(sorted_files) = Files)

\* C3 witness: the sort returned on a graph holding a self-import, a
\* two-file cycle and nothing else.
C3_Witness ==
    /\ sort_pc = "done"
    /\ 1 \in dependency_graph[1]
    /\ 3 \in dependency_graph[2] /\ 2 \in dependency_graph[3]
    /\ Len(sorted_files) = NumFiles

\* The shape of the returned order: the files the main loop placed come
\* first, the files left with unresolved dependencies follow, ascending.
RemainderLast ==
    /\ \A i \in DOMAIN sorted_files :
          (i <= main_count) <=> (graph[sorted_files[i]] = {})
    /\ \A f \in Files : graph[f] # {} => PosIn(sorted_files, f) > main_count
    /\ Ascending(SubSeq(sorted_files, main_count + 1, Len(sorted_files)))

\* C4: for every graph containing a cycle the sort terminates: until it has
\* returned a step can always be taken (it neither fails nor blocks) and the
\* main loop runs at most once per file, so the return is reached within
\* NumFiles + 2 steps; and the files left with unresolved dependencies after
\* the main loop are appended after all files the loop ordered, in ascending
\* path order.
C4_CycleTerminatesRemainderSorted ==
    HasCycle(dependency_graph) =>
        /\ sort_pc # "done" => ENABLED SortNext
        /\ main_count <= NumFiles
        /\ sort_pc = "loop" => Len(sorted_files) = main_count
        /\ sort_pc = "done" => RemainderLast

\* C4 witness: the sort returned on a graph with a cycle, having ordered one
\* file in the main loop and appended two remaining files that were
\* discovered in descending order.
C4_Witness ==
    /\ sort_pc = "done"
    /\ HasCycle(dependency_graph)
    /\ main_count = 1
    /\ PosIn(insertion, 3) < PosIn(insertion, 2)
    /\ graph[2] # {} /\ graph[3] # {}

Min(S) == CHOOSE x \in S : \A y \in S : x <= y

\* The files all of whose dependencies are in `placed`.
ReadyFiles(dg, placed) == {n \in Files \ placed : dg[n] \subseteq placed}

\* The order a graph determines by itself: repeatedly the smallest ready
\* file, then the rest ascending.  No insertion order enters it.
RECURSIVE SmallestReadyFirst(_, _)
SmallestReadyFirst(dg, placed) ==
    IF ReadyFiles(dg, Range(placed)) = {} THEN placed
    ELSE SmallestReadyFirst(dg, Append(placed, Min(ReadyFiles(dg, Range(placed)))))

RECURSIVE AscendingSeqOf(_)
AscendingSeqOf(S) ==
    IF S = {} THEN <<>> ELSE <<Min(S)>> \o AscendingSeqOf(S \ {Min(S)})

OrderOfGraph(dg) ==
    LET main == SmallestReadyFirst(dg, <<>>)
    IN  main \o AscendingSeqOf(Files \ Range(main))

IsPrefix(s, t) == Len(s) <= Len(t) /\ SubSeq(t, 1, Len(s)) = s

\* C5: the order is a function of the graph's files and edges only: at every
\* step of the main loop the file selected is the smallest among the files
\* whose dependencies have all been placed, and the returned order is the
\* one the graph alone determines, whatever the insertion order was.
C5_OrderIndependentOfInsertion ==
    /\ sort_pc = "loop" =>
          /\ IsPrefix(sorted_files, SmallestReadyFirst(dependency_graph, <<>>))
          /\ \A i \in DOMAIN sorted_files :
                sorted_files[i] =
                    Min(ReadyFiles(dependency_graph,
                                   Range(SubSeq(sorted_files, 1, i - 1))))
    /\ sort_pc = "done" => sorted_files = OrderOfGraph(dependency_graph)

\* C5 witness: the files were discovered in descending order, file 1 imports
\* file 2, and the sort returned 2, 1, 3.
C5_Witness ==
    /\ sort_pc = "done"
    /\ insertion = <<3, 2, 1>>
    /\ dependency_graph[1] = {2}
    /\ sorted_files = <<2, 1, 3>>

\* ------------------------------------------- properties of the retry loop

\* The retry loop ran and returned.
LoopReturned == file_pc = "done" /\ input_kind = "text"

\* C7 (as claimed): for a file whose transformation service always returns
\* a response that fails validation (no attempt raised, none passed), the
\* result is a failure whose attempt count is exactly the configured
\* maximum, after exactly that many calls of the service.
C7_RetryBudgetExact ==
    (LoopReturned /\ loop.exceptions = 0 /\ ~loop.result.success) =>
        /\ loop.result.attempts = MAX_RETRIES
        /\ loop.llm_calls = MAX_RETRIES

\* C8 (as claimed): every result's attempt count is 0 or lies between 1 and
\* the configured ceiling; it is never negative, it is 0 exactly for missing
\* or skipped files, and between 1 and the ceiling for every successful
\* result; for every value of the ceiling.  (The results upgrade_file and
\* upgrade_file_with_context return; the orchestrator's own results for
\* files whose upgrade raised have 0 attempts by construction.)
C8_AttemptsWithinCeiling ==
    file_pc = "done" =>
        /\ 0 <= loop.result.attempts
        /\ loop.result.attempts # 0 => loop.result.attempts <= MAX_RETRIES
        /\ (loop.result.attempts = 0) <=> (input_kind \in {"missing", "skipped"})
        /\ loop.result.success =>
              (1 <= loop.result.attempts /\ loop.result.attempts <= MAX_RETRIES)

\* Responses whose extracted text is empty.
EmptyAnswers == {" \n ", "@@@python @@@"}

\* Responses whose extracted text begins with a refusal, apology or
\* placeholder prefix of the running function's table: four that both
\* functions list, and "I can't", which upgrade_file lists with U+2019 and
\* upgrade_file_with_context with the ASCII apostrophe.
RefusalAnswers ==
    {"I'm sorry, I cannot do that", " SORRY ", "@@@python\nIm sorry\n@@@",
     "# upgraded code here\nx = 1"}
    \cup (IF upgrade_fn = "upgrade_file" THEN {"I can~t"} ELSE {"I can't"})

\* The last attempt received loop.response from the service.
LastAttemptAnswered ==
    file_pc \in {"loop", "done"} /\ loop.attempt >= 1 /\ loop.last # "exception"

\* C9: an attempt whose response is empty or a refusal after extraction is
\* exactly one failed attempt (one service call per attempt, no success), it
\* records the descriptive error, it does not raise, and while attempts
\* remain the loop goes on to the next attempt; once none remains the file
\* fails with that error.
C9_RefusalIsOneFailedAttempt ==
    /\ file_pc \in {"loop", "done"} => loop.llm_calls = loop.attempt
    /\ (LastAttemptAnswered /\ loop.response \in EmptyAnswers \cup RefusalAnswers) =>
          /\ loop.error = IF loop.response \in EmptyAnswers
                          THEN EmptyError ELSE PlaceholderError
          /\ loop.last \in {"empty", "refusal"}
          /\ ~loop.result.success
          /\ loop.attempt < MAX_RETRIES =>
                (file_pc = "loop" /\ loop.result = NoResult)
          /\ file_pc = "done" =>
                (loop.attempt = MAX_RETRIES /\ loop.result.error = loop.error)

\* C9 witness: the first of two attempts was answered "I'm sorry, ..." and
\* the loop stands before the second attempt.
C9_Witness ==
    /\ file_pc = "loop"
    /\ MAX_RETRIES = 2
    /\ loop.attempt = 1
    /\ loop.response = "I'm sorry, I cannot do that"
    /\ loop.error = PlaceholderError

\* ------------------------------------------ properties of the repository run

\* C6 (as claimed): in sequential mode files are upgraded one at a time;
\* the upgrade of a file that is not a cyclic remainder (it neither lies on
\* an import cycle nor transitively depends on one) starts only when the
\* upgrade of each of its dependencies among the repository's files has
\* finished.  (The exempted files are not constrained here.)
C6_DependenciesFinishFirst ==
    (mode = "sequential" /\ repo_pc = "loop") =>
        /\ Cardinality(running) <= 1
        /\ \A f \in running :
              ~CycleBound(dependency_graph, f) =>
                  (dependency_graph[f] \cap Files) \subseteq FinishedFiles

\* The number of results of file f in a list of results.
ResultCount(rs, f) == Cardinality({i \in DOMAIN rs : rs[i].file_path = f})

\* The run has written UPGRADE_REPORT.md.
ReportWritten == repo_pc \in {"reported", "returned", "TypeError"}

\* The loop over the files is over.
LoopOver == ReportWritten \/ repo_pc = "ZeroDivisionError"

SucceededFiles ==
    {results[i].file_path : i \in {j \in DOMAIN results : results[j].success}}

\* The files with a failed result so far.
FailedFiles ==
    {results[i].file_path : i \in {j \in DOMAIN results : ~results[j].success}}

\* C11: in sequential mode the context given to the running upgrade of F
\* holds only direct dependencies of F whose upgrade ended with success
\* earlier in the run, upgrade_file_with_context is called exactly when the
\* context is not empty, and a failed dependency does not keep F from being
\* attempted: when the loop is at a file it does not pass over, the start of
\* its upgrade is enabled.
C11_ContextOnlyFromUpgradedDependencies ==
    (mode = "sequential" /\ repo_pc = "loop") =>
        /\ \A f \in running :
              /\ dependency_context \subseteq dependency_graph[f]
              /\ dependency_context \subseteq SucceededFiles
              /\ dependency_context \cap FailedFiles = {}
              /\ (upgrade_fn = "upgrade_file_with_context") <=> (dependency_context # {})
        /\ (running = {} /\ index < Len(ordered_files) /\ CurrentFile \notin special)
              => ENABLED SeqStartFile

\* File 1 failed; file 2, which imports files 1 and 3, is being upgraded
\* with a context from file 3 alone.
C11_Witness ==
    /\ mode = "sequential" /\ repo_pc = "loop"
    /\ running = {2}
    /\ dependency_graph[2] = {1, 3}
    /\ 1 \in FailedFiles
    /\ dependency_context = {3}

\* C12: one call of upgrade_repo enters exactly one mode function, the one
\* use_dependency_order selects, and in a parallel run every file upgrade
\* is a call of upgrade_file: no dependency context is built and nothing
\* enters upgraded_cache.
C12_ExactlyOneMode ==
    /\ Cardinality(entered) <= 1
    /\ repo_pc \notin {"idle", "call"} =>
          entered = (IF mode = "sequential"
                     THEN {"upgrade_repo_with_dependency_awareness"}
                     ELSE {"upgrade_repo_parallel"})
    /\ "upgrade_repo_parallel" \in entered =>
          /\ upgrade_fn = "upgrade_file"
          /\ dependency_context = {}
          /\ upgraded_cache = {}

\* A parallel run with two upgrades in progress after a first file was
\* upgraded successfully.
C12_Witness ==
    /\ entered = {"upgrade_repo_parallel"}
    /\ Cardinality(running) = 2
    /\ SucceededFiles # {}

\* The position of the first call of fn in calls (0 when there is none).
CallPos(fn) ==
    IF \E i \in DOMAIN calls : calls[i].fn = fn
    THEN CHOOSE i \in DOMAIN calls :
            calls[i].fn = fn /\ \A j \in DOMAIN calls : calls[j].fn = fn => i <= j
    ELSE 0

\* The run is over after a loop in which every file that was processed was
\* upgraded successfully (and there was one).
EndedAllUpgraded ==
    /\ repo_pc \in {"returned", "TypeError"}
    /\ results # <<>>
    /\ \A i \in DOMAIN results : results[i].success

\* C13 (as claimed): with verification enabled, the baseline validation is
\* called before the output copy is made and before any file upgrade
\* starts, and a run whose files were all upgraded (with a captured
\* baseline) has then called the verification validation, after the file
\* upgrades, with the baseline's capture directory as comparison directory;
\* with verification disabled no baseline validation is ever called and
\* the verification validation is called with neither directory.
C13_BaselineFirstVerificationLast ==
    /\ verify_runtime_outputs =>
          /\ (CallPos("copytree") # 0 \/ running # {} \/ results # <<>>) =>
                (CallPos("perform_project_runtime_validation") # 0
                 /\ CallPos("perform_project_runtime_validation") < CallPos("copytree"))
          /\ (EndedAllUpgraded /\ baseline_engine = "captured") =>
                /\ CallPos("validate_repository") > CallPos("copytree")
                /\ calls[CallPos("validate_repository")].compare = "baseline_output_dir"
    /\ ~verify_runtime_outputs =>
          /\ CallPos("perform_project_runtime_validation") = 0
          /\ EndedAllUpgraded =>
                /\ CallPos("validate_repository") > CallPos("copytree")
                /\ calls[CallPos("validate_repository")].capture = "none"
                /\ calls[CallPos("validate_repository")].compare = "none"
    /\ CallPos("validate_repository") # 0 => LoopOver

\* C14 (as claimed): a run with verification enabled, a captured baseline
\* and every file upgraded successfully ends in one of two ways: it returns
\* the report path (the outputs compare equal) or it fails with the runtime
\* validation's error (they differ); either way the verification validation
\* has been called with the baseline directory to compare with.
C14_VerifiedRunReturnsOrFailsValidation ==
    (verify_runtime_outputs /\ baseline_outputs_captured /\ EndedAllUpgraded) =>
        /\ repo_pc \in {"returned", "RuntimeError"}
        /\ CallPos("validate_repository") # 0
        /\ calls[CallPos("validate_repository")].compare = "baseline_output_dir"

\* The functions that run the runtime validation engine.
ValidationFunctions == {"perform_project_runtime_validation", "validate_repository"}

\* C15: once a validation pass (baseline or verification) has reported a
\* failure the run is over with RuntimeError: after a failed baseline no
\* copy is made, no file is upgraded and no report is written, and no run
\* with a failed pass returns.
C15_ValidationFailureAborts ==
    \A i \in DOMAIN calls :
        (calls[i].fn \in ValidationFunctions /\ ~calls[i].ok) =>
            /\ repo_pc = "RuntimeError"
            /\ i = Len(calls)
            /\ calls[i].fn = "perform_project_runtime_validation" =>
                  (results = <<>> /\ running = {} /\ report = <<>>
                   /\ ordered_files = <<>>)

\* The baseline validation reported a failure.
C15_Witness ==
    /\ verify_runtime_outputs
    /\ baseline_engine = "failed"
    /\ Len(calls) = 1
    /\ ~calls[1].ok
    /\ repo_pc = "RuntimeError"

\* ------------------------------- properties of the runtime validation

\* The project exists, its configuration resolves, and neither
\* ML_UPGRADER_RUNTIME_COMMAND nor the configuration file gives a command.
NoCommandConfigured ==
    /\ project.root_is_dir
    /\ project.config \in {"absent", "no_command"}
    /\ project.env_command \in {None, ""}

\* The call in progress has created no environment and run no subprocess.
NothingRun ==
    /\ validation.venv_creations = 0
    /\ validation.install_steps = 0
    /\ validation.setup_index = 0
    /\ validation.executions = 0
    /\ validation.auto_installs = 0

\* C16: with no runtime command configured, by the environment or by the
\* configuration file, a validation call provisions no environment, runs no
\* subprocess, never stores outputs or creates the capture directory, and
\* returns (True, None), whatever directories it was given.
C16_NoCommandIsTrivialSuccess ==
    NoCommandConfigured =>
        /\ NothingRun
        /\ validation.store_calls = 0
        /\ ~validation.capture_dir
        /\ disk.marker = NoMarker
        /\ validation.pc = "returned" => validation.result = <<TRUE, None>>

\* A call without a command returned although it was given a capture and a
\* comparison directory, the variable being set to the empty string and
\* the configuration file holding no command.
C16_Witness ==
    /\ NoCommandConfigured
    /\ project.env_command = ""
    /\ project.config = "no_command"
    /\ validation.output_capture_dir
    /\ validation.compare_with_dir
    /\ validation.pc = "returned"
    /\ validation.call = 2

\* The validation calls that returned, the last one included.
ReturnedCalls ==
    finished \o (IF validation.pc = "returned" THEN <<Summary(validation)>>
                 ELSE <<>>)

\* Two consecutive calls returned, no manifest was edited between them and
\* no reinstall is forced.
TwoCallsSameManifests ==
    /\ Len(ReturnedCalls) = 2
    /\ ReturnedCalls[1].requirements = ReturnedCalls[2].requirements
    /\ ~project.force_reinstall

C18_AutoRecoveryIsOneShot ==
    /\ validation.auto_installs <= 1
    /\ validation.executions <= 2
    /\ validation.auto_installs = 1 =>
          /\ ExitedNonZero(validation.runtime_result.ended)
          /\ extract_missing_module(validation.runtime_result.log) # None
          /\ validation.auto_install_cmd
                = extract_missing_module(validation.runtime_result.log)
    /\ (validation.executions = 2 \/ validation.pc = "retry") =>
          /\ validation.auto_installs = 1
          /\ ExitedZero(validation.auto_install_result)
    /\ (validation.executions = 2 /\ ~ExitedZero(validation.final_result.ended)) =>
          /\ validation.pc \in {"store", "returned"}
          /\ ~validation.success
          /\ validation.pc = "returned" => validation.result[1] = FALSE

\* The retry after a successful automatic install failed, and the call
\* returned a failure.
C18_Witness ==
    /\ validation.pc = "returned"
    /\ validation.executions = 2
    /\ validation.auto_installs = 1
    /\ validation.auto_install_cmd = "pkg"
    /\ validation.final_result.ended = "exit_1"
    /\ extract_missing_module(validation.final_result.log) # None
    /\ validation.result[1] = FALSE

\* ------------------------------------ properties of the output comparison

\* A reference directory was given and exists: a comparison is made.
BaselineSupplied ==
    capture_pair.fault \notin {"no_reference_dir", "reference_dir_missing"}

\* The streams the comparison recorded are the normalized contents of the
\* four stream files, pairwise equal.
StreamsMatchNormalized ==
    \E baseline_order \in IterationOrders(variants(capture_pair.baseline.project_root)),
       current_order \in IterationOrders(variants(capture_pair.current.project_root)) :
       LET normalized(capture, template) ==
               normalize_runtime_output_text(Printed(template, capture.project_root),
                                             baseline_order, current_order)
       IN  /\ comparison.streams =
                <<normalized(capture_pair.baseline, capture_pair.baseline.stdout),
                  normalized(capture_pair.current, capture_pair.current.stdout),
                  normalized(capture_pair.baseline, capture_pair.baseline.stderr),
                  normalized(capture_pair.current, capture_pair.current.stderr)>>
           /\ comparison.streams[1] = comparison.streams[2]
           /\ comparison.streams[3] = comparison.streams[4]

\* Conditions (a) to (d) of a match.
Comparable ==
    /\ capture_pair.baseline.success
    /\ returncode(capture_pair.baseline.status) = returncode(capture_pair.current.status)
    /\ timed_out(capture_pair.baseline.status) = timed_out(capture_pair.current.status)
    /\ StreamsMatchNormalized

\* C19: with a baseline directory to compare with, _compare_runtime_outputs
\* reports a match only if the baseline metadata reports success, the exit
\* statuses are equal, the time-out flags are equal and stdout and stderr
\* are equal after the normalization of the project roots; when one of the
\* conditions fails it reports a failure with a reason.
C19_MatchOnlyIfComparable ==
    (comparison # NotCompared /\ BaselineSupplied) =>
        /\ comparison.ok => (Comparable /\ comparison.reason = None)
        /\ ~Comparable => (~comparison.ok /\ comparison.reason # None)

\* A match of two runs in different project roots whose stdout printed the
\* root.
C19_Witness ==
    /\ comparison.ok
    /\ BaselineSupplied
    /\ capture_pair.baseline.project_root # capture_pair.current.project_root
    /\ \E i \in DOMAIN capture_pair.baseline.stdout :
          capture_pair.baseline.stdout[i] = RootHole
    /\ capture_pair.baseline.stderr = <<RootHole>>

\* C20: two captures with equal exit status and time-out flag, of a
\* succeeded baseline, whose stdout and stderr differ only in that each
\* prints its own run's project root where the other prints the other
\* run's, compare as equal, for any two project roots.
C20_RunLocationInsensitive ==
    (/\ comparison # NotCompared
     /\ capture_pair.fault = None
     /\ capture_pair.baseline.success
     /\ capture_pair.baseline.status = "exit_0"
     /\ capture_pair.baseline.status = capture_pair.current.status
     /\ capture_pair.baseline.stdout = capture_pair.current.stdout
     /\ capture_pair.baseline.stderr = capture_pair.current.stderr) =>
        comparison.ok

\* --------------------------------------- the command of the two captures

\* A comparison was made between two intact capture directories and it
\* reported a match.
ReportedMatch ==
    /\ comparison # NotCompared
    /\ capture_pair.fault = None
    /\ comparison.ok

\* C21: a baseline capture and a verification capture compare as a match
\* only if both ran the same configured command.
C21_MatchOnlyIfSameCommand ==
    (ReportedMatch /\ capture_pair.baseline.status = "exit_0")
        => capture_pair.baseline.command_original
               = capture_pair.current.command_original

\* ------------------------------------------ the subprocesses of a call

\* C22: every subprocess a validation call starts runs with an explicit
\* finite timeout, so that the call never waits for ever on a subprocess
\* that does not exit on its own.
C22_NoCallWaitsForEver ==
    validation.pc = "blocked" => timeout_of(validation.waiting_for) # None

\* ------------------------------------------ properties of the install step

\* The log of the install step of the call in progress.
InstallLog == validation.install_log

\* Entry i of the install log is a manifest install that failed with an
\* unsatisfiable version pin.
PinFailure(i) ==
    /\ InstallLog[i][1] = "dependency_install"
    /\ InstallLog[i][3] = "exit_1"
    /\ InstallLog[i][4] = "No matching distribution found for pkg==9.9"

\* Entry i is followed by the install of the bare package, which exited
\* with status 0.
FallbackSucceeded(i) ==
    /\ i < Len(InstallLog)
    /\ InstallLog[i + 1][1] = "dependency_fallback"
    /\ InstallLog[i + 1][3] = "exit_0"

\* The install step ran, a manifest failed with an unsatisfiable pin, every
\* such failure was followed by a successful fallback and no other step of
\* the install sequence failed.
FallbackRecovered ==
    /\ \E i \in DOMAIN InstallLog : PinFailure(i)
    /\ \A i \in DOMAIN InstallLog :
          \/ InstallLog[i][3] = "exit_0"
          \/ PinFailure(i) /\ FallbackSucceeded(i)

\* The reasons of a call that a setup command ended.
SetupFailures ==
    {"Setup command timed out before runtime execution",
     "Setup command failed before runtime execution"}

\* C23: a manifest install that fails with an unsatisfiable version pin for
\* a package is followed by an install of that package without the pin;
\* when that fallback succeeds, dependency installation counts as
\* successful and the call goes on to the setup commands and the runtime
\* command: it does not fail for the installation, and it succeeds when the
\* command exits with status 0.
C23_PinFailureFallsBackToLatest ==
    /\ \A i \in DOMAIN InstallLog :
          PinFailure(i) =>
             /\ i < Len(InstallLog)
             /\ InstallLog[i + 1][1] = "dependency_fallback"
             /\ InstallLog[i + 1][2] = "pkg"
    /\ FallbackRecovered =>
          /\ validation.install_ok
          /\ validation.pc \in {"setup", "command", "auto_install", "retry",
                                "store", "returned", "blocked"}
          /\ validation.pc = "blocked" => validation.waiting_for = "auto_install"
          /\ validation.reason # "Dependency installation failed"
          /\ (validation.pc \in {"store", "returned"} /\ validation.executions = 0)
                => validation.reason \in SetupFailures
          /\ (validation.pc \in {"store", "returned"}
              /\ ExitedZero(validation.final_result.ended))
                => validation.success

\* Both manifests failed with an unsatisfiable pin, both fallbacks
\* succeeded, the command ran and exited with status 0: the call is about
\* to return success.
C23_Witness ==
    /\ FallbackRecovered
    /\ Cardinality({i \in DOMAIN InstallLog : PinFailure(i)}) = 2
    /\ validation.executions = 1
    /\ validation.pc = "store"
    /\ validation.success

\* The manifests the install log has an install entry for.
AttemptedManifests ==
    {InstallLog[i][2] : i \in {j \in DOMAIN InstallLog :
                                  InstallLog[j][1] = "dependency_install"}}

\* C24: manifests are installed individually and independently: once the
\* install loop has started and the call has left the install step, an
\* installation has been attempted from every discovered manifest, also
\* when the installation from an earlier manifest failed.
C24_EveryManifestAttempted ==
    (AttemptedManifests # {} /\ validation.pc # "blocked")
        => AttemptedManifests = DOMAIN validation.requirements

\* ------------------------------------------ properties of the setup commands

\* The setup commands run so far.
SetupLog == validation.setup_log

\* The setup commands were run in configured order: entry i is the i-th
\* configured command, run in the runtime directory, and every command
\* before the last one run exited with status 0.
SetupInConfiguredOrder ==
    /\ Len(SetupLog) = validation.setup_index
    /\ Len(SetupLog) <= project.setup_commands
    /\ \A i \in DOMAIN SetupLog :
          /\ SetupLog[i][1] = setup_command_kind(i)
          /\ SetupLog[i][3] = runtime_directory
          /\ i < Len(SetupLog) => SetupLog[i][4] = "exit_0"

\* The main command runs after every configured setup command exited with
\* status 0.
SetupBeforeMainCommand ==
    (validation.executions > 0 \/ validation.pc \in {"command", "auto_install", "retry"})
        => /\ Len(SetupLog) = project.setup_commands
           /\ \A i \in DOMAIN SetupLog : SetupLog[i][4] = "exit_0"

\* A setup command that exits non-zero or times out ends the call with a
\* failure: no further setup command and no main command is run.
SetupFailureIsFatal ==
    \A i \in DOMAIN SetupLog :
        SetupLog[i][4] # "exit_0" =>
           /\ i = Len(SetupLog)
           /\ validation.pc \in {"store", "returned"}
           /\ ~validation.success
           /\ validation.executions = 0
           /\ validation.auto_installs = 0
           /\ validation.pc = "returned" => validation.result[1] = FALSE

\* With skip_install set and the environment present, nothing but the
\* setup commands and the main command is run.
SkipInstallRunsCommandsOnly ==
    (project.skip_install /\ validation.venv_creations = 0)
        => /\ validation.install_steps = 0
           /\ validation.install_log = <<>>
           /\ validation.auto_installs = 0
           /\ validation.executions <= 1

ReportedFiles == [i \in DOMAIN report |-> report[i].file_path]

\* The files handed to the upgrade, in the order the repository snapshot
\* fixes: the upgrade order, or the walk order of the parallel mode,
\* without the files both loops pass over.
SubmittedFiles == SelectSeq(ordered_files, LAMBDA file : file \notin special)

\* C26: with a transformation service whose answer is a function of its
\* input, the results in the report, their order included, are fixed by the
\* repository snapshot: in either mode and under any interleaving of the
\* workers the report lists the files in the order they were handed out.
C26_ReportFixedBySnapshot ==
    (ReportWritten /\ Len(SubmittedFiles) >= 2 /\ max_workers >= 2)
        => ReportedFiles = SubmittedFiles

\* ------------------------------------------------ properties of the retry loop

\* C27: the retry loop stops at the first attempt whose result passes
\* validation: the step that makes the attempt ends the call with a
\* successful result whose attempt count is the number of service calls made
\* for the file, and once an attempt has passed validation no step makes a
\* further service call or writes the output file again.
C27_StopsAtFirstValidAttempt ==
    [][ /\ (loop.last # "valid" /\ loop'.last = "valid") =>
              /\ file_pc' = "done"
              /\ loop'.result = FileUpgradeResult(TRUE, loop'.llm_calls, NoError)
              /\ loop'.llm_calls = loop'.attempt
              /\ loop'.output_file \in ValidPython
        /\ loop.last = "valid" =>
              /\ loop'.llm_calls = loop.llm_calls
              /\ loop'.writes = loop.writes
              /\ loop'.output_file = loop.output_file
              /\ loop'.result = loop.result ]_vars

\* C27 witness: the third attempt passed validation after an invalid and a
\* refused one; the call has returned.
C27_Witness ==
    /\ file_pc = "done"
    /\ loop.last = "valid"
    /\ loop.attempt = 3
    /\ loop.writes = 2
    /\ loop.result.success
    /\ loop.result.attempts = 3

\* The error an attempt of the given kind leaves behind.
AttemptError(st) ==
    CASE st.last = "empty"     -> {EmptyError}
      [] st.last = "refusal"   -> {PlaceholderError}
      [] st.last = "invalid"   -> {ValidationError}
      [] st.last = "exception" -> {FaultError(fault) : fault \in Faults \ {"none"}}
      [] OTHER                 -> {}

\* C28: the prompt of attempt 1 is built from the original text and the
\* precheck's failure, if it failed (no error otherwise); the prompt of each
\* later attempt is built from the text of the most recent attempt that was
\* written and found invalid (the original while there is none) and from
\* the error of the attempt before it.
C28_PromptInputsFollowStateMachine ==
    [][ loop'.attempt = loop.attempt + 1 =>
           IF loop.attempt = 0
           THEN /\ loop'.prompt.code = OriginalCode
                /\ loop'.prompt.error =
                      CASE loop.precheck = "ok"      -> NoError
                        [] loop.precheck = "invalid" -> ValidationError
                        [] loop.precheck = "raises"  -> FaultError("validate_code")
           ELSE /\ loop'.prompt.code =
                      IF loop.last = "invalid"
                      THEN clean_llm_response(loop.response)
                      ELSE loop.prompt.code
                /\ loop.last = "invalid" => loop.output_file = loop'.prompt.code
                /\ loop'.prompt.error \in AttemptError(loop)
                /\ loop'.prompt.error = loop.error ]_vars

\* C28 witness: the original failed the precheck, the first answer was
\* written and found invalid, the second was refused: the third prompt was
\* built from the first answer's text and the refusal's error.
C28_Witness ==
    /\ loop.attempt = 3
    /\ loop.precheck = "invalid"
    /\ loop.prompt = build_prompt("x = (", PlaceholderError)
    /\ loop.current_code = "x = ("

\* C29: an exception raised during an attempt (by the service call, by
\* writing the file or by validation; build_prompt only formats strings) is
\* caught and recorded as the attempt's error and the loop goes on with the
\* next attempt; no exception leaves the call from inside the retry loop;
\* after exhaustion the failed result carries the last recorded error, or
\* the generic message when none was recorded.
C29_ExceptionsAreCaughtAndRecorded ==
    /\ file_pc = "raised" => (input_kind = "unreadable" /\ loop.attempt = 0)
    /\ loop.last = "exception" =>
          /\ loop.exceptions >= 1
          /\ loop.error \in {FaultError(fault) : fault \in Faults \ {"none"}}
          /\ loop.result.kind = "result" =>
                (file_pc = "done" /\ loop.attempt >= MAX_RETRIES)
          /\ loop.attempt < MAX_RETRIES =>
                (file_pc = "loop" /\ loop.result = NoResult)
    /\ (file_pc = "done" /\ input_kind = "text" /\ ~loop.result.success) =>
          /\ loop.attempt >= MAX_RETRIES
          /\ loop.result.error =
                IF loop.error = NoError THEN ExhaustedError ELSE loop.error
          /\ loop.attempt = 0 => loop.error = PrecheckError(loop.precheck)
          /\ loop.attempt > 0 => loop.error \in AttemptError(loop)

\* C29 witness: the first attempt's answer was found invalid, the second
\* attempt raised while writing the file; the ceiling of two is used up and
\* the result carries the exception's text.
C29_Witness ==
    /\ file_pc = "done"
    /\ MAX_RETRIES = 2
    /\ loop.attempt = 2
    /\ loop.exceptions = 1
    /\ loop.last = "exception"
    /\ loop.current_code = "x = ("
    /\ loop.result = FileUpgradeResult(FALSE, 2, FaultError("write_file"))

\* The step is the install step of the call in progress, not skipped.
InstallStepTaken ==
    /\ validation.pc = "install"
    /\ validation'.install_steps = validation.install_steps + 1

\* Some subprocess of the install step just taken did not exit with 0.
SomeInstallStepFailed ==
    \E i \in DOMAIN validation'.install_log :
        validation'.install_log[i][3] # "exit_0"

\* Every subprocess of the install step just taken exited with status 0,
\* but for manifest installs that a successful fallback install followed.
InstallSequenceSucceeded ==
    \A i \in DOMAIN validation'.install_log :
        \/ validation'.install_log[i][3] = "exit_0"
        \/ /\ validation'.install_log[i][1] = "dependency_install"
           /\ validation'.install_log[i][3] = "exit_1"
           /\ i < Len(validation'.install_log)
           /\ validation'.install_log[i + 1][1] = "dependency_fallback"
           /\ validation'.install_log[i + 1][3] = "exit_0"

\* C30 as stated: the marker is written only when the whole install
\* sequence succeeded; an install step of which any subprocess failed or
\* timed out leaves the marker unchanged.
C30_MarkerUnchangedAfterAnyFailedStep ==
    [][ (InstallStepTaken /\ SomeInstallStepFailed) =>
            (disk'.marker = disk.marker /\ ~validation'.marker_saved) ]_vars

\* C30, amended: the marker changes in the install step only, and only when
\* the install sequence succeeded, a manifest install recovered by its
\* fallback install counting as success; it then records the hashes of the
\* manifests at hand.  An install sequence that failed, or that waits on a
\* subprocess for ever, leaves the marker unchanged, and the call after one
\* whose install sequence failed performs the install step again.
C30_MarkerWrittenOnlyOnSuccess ==
    [][ /\ disk'.marker # disk.marker =>
              /\ InstallStepTaken
              /\ InstallSequenceSucceeded
              /\ validation'.install_ok
              /\ validation'.marker_saved
              /\ validation'.pc # "blocked"
              /\ disk'.marker.requirements_hashes = disk.requirements
        /\ (InstallStepTaken /\ ~InstallSequenceSucceeded) =>
              /\ disk'.marker = disk.marker
              /\ ~validation'.marker_saved
              /\ validation'.pc # "blocked" => ~validation'.install_ok
        /\ (/\ Len(ReturnedCalls') = 2
            /\ ReturnedCalls'[1].install_steps = 1
            /\ ~ReturnedCalls'[1].install_ok) =>
              /\ ~ReturnedCalls'[1].marker_saved
              /\ ReturnedCalls'[2].install_steps = 1 ]_vars

\* C30 witness: the first call's install sequence failed and wrote no
\* marker; the second call performed the install step again, succeeded and
\* wrote the marker.
C30_Witness ==
    /\ Len(ReturnedCalls) = 2
    /\ ReturnedCalls[1].install_steps = 1
    /\ ~ReturnedCalls[1].install_ok
    /\ ~ReturnedCalls[1].marker_saved
    /\ ReturnedCalls[2].install_steps = 1
    /\ ReturnedCalls[2].install_ok
    /\ ReturnedCalls[2].marker_saved
    /\ disk.marker.requirements_hashes = disk.requirements
    /\ DOMAIN disk.requirements # {}

\* --------------------------------------------------- properties of time-outs

\* Some setup command of the call in progress timed out.
SetupTimedOut ==
    \E i \in DOMAIN validation.setup_log : validation.setup_log[i][4] = "timed_out"

\* C31: a step that timed out is a failure and is not retried: after a
\* time-out of a setup command the runtime command is never run and the
\* call fails; after a time-out of the runtime command no package is
\* installed and the command is not run again, whatever it had printed, and
\* the call fails; a retry that timed out fails the call too.  (The
\* creation of the virtual environment runs without a time-out: the branch
\* of its time-out is never taken.)
C31_TimedOutStepIsFinal ==
    /\ SetupTimedOut =>
          /\ validation.setup_log[Len(validation.setup_log)][4] = "timed_out"
          /\ validation.executions = 0
          /\ validation.auto_installs = 0
          /\ validation.pc \in {"store", "returned"}
          /\ ~validation.success
          /\ validation.reason = "Setup command timed out before runtime execution"
    /\ validation.runtime_result.ended = "timed_out" =>
          /\ validation.executions = 1
          /\ validation.auto_installs = 0
          /\ ~validation.auto_install_attempted
          /\ validation.pc \in {"store", "returned"}
          /\ ~validation.success
          /\ validation.reason = "Runtime command timed out"
    /\ validation.final_result.ended = "timed_out" =>
          /\ validation.executions <= 2
          /\ validation.pc \in {"store", "returned"}
          /\ ~validation.success
          /\ validation.reason = "Runtime command timed out"
    /\ validation.reason = "Virtual environment creation timed out" =>
          (~validation.success /\ validation.executions = 0)
    /\ (validation.pc = "returned"
        /\ (SetupTimedOut \/ validation.final_result.ended = "timed_out")) =>
          validation.result[1] = FALSE

\* C31 witness: the runtime command printed an import error and was killed
\* at the time-out; the call returned failure without installing anything.
C31_Witness ==
    /\ validation.pc = "returned"
    /\ validation.runtime_result =
          [ended |-> "timed_out", log |-> "No module named 'pkg.sub'"]
    /\ validation.install_ok
    /\ ~project.skip_install
    /\ validation.executions = 1
    /\ validation.auto_installs = 0
    /\ validation.result[1] = FALSE

\* ------------------------------------------ properties of the baseline pass

\* C32: an unsuccessful baseline capture is a skip with notice: when the
\* baseline validation has reported a failure the run is not aborted, it
\* goes on to the copy and the file upgrades without baseline outputs.
C32_FailedBaselineIsSkipped ==
    (/\ verify_runtime_outputs
     /\ Len(calls) >= 1
     /\ calls[1].fn = "perform_project_runtime_validation"
     /\ ~calls[1].ok) =>
        /\ repo_pc # "RuntimeError"
        /\ ~baseline_outputs_captured

\* ------------------------------------------ properties of the parallel mode

\* The files handed to a worker so far: process_single_file was called on
\* them and did not pass over them.
HandedToWorker ==
    {ordered_files[i] : i \in 1..index} \ special

\* C33: in parallel mode, under every interleaving, each collected file is
\* handed to one worker task only (a file is never in progress twice, nor
\* in progress again once it has a result), at most max_workers upgrades are
\* in progress, every step adds at most one result, at the end of the list,
\* and once the loop is over each file not passed over has exactly one
\* result and nothing is in progress.
C33_ParallelWorkersDisjointAndBounded ==
    [][ (mode = "parallel" /\ repo_pc' \in {"loop", "reported", "ZeroDivisionError"}) =>
           /\ Cardinality(running') <= max_workers
           /\ running' \cap {results'[i].file_path : i \in DOMAIN results'} = {}
           /\ running' \cup {results'[i].file_path : i \in DOMAIN results'}
                 = {ordered_files'[i] : i \in 1..index'} \ special
           /\ \A i, j \in DOMAIN results' :
                 results'[i].file_path = results'[j].file_path => i = j
           /\ \/ results' = results
              \/ /\ Len(results') = Len(results) + 1
                 /\ SubSeq(results', 1, Len(results)) = results
                 /\ results'[Len(results')].file_path \in running
                 /\ running' = running \ {results'[Len(results')].file_path}
           /\ running' # running => Cardinality(running') \in
                 {Cardinality(running) - 1, Cardinality(running) + 1}
           /\ repo_pc' \in {"reported", "ZeroDivisionError"} =>
                 /\ running' = {}
                 /\ {results'[i].file_path : i \in DOMAIN results'}
                       = Range(ordered_files') \ special
                 /\ Len(results') = Cardinality(Range(ordered_files') \ special) ]_vars

\* C33 witness: two workers, three files: two upgrades are in progress at
\* once, one has ended and its result is recorded.
C33_Witness ==
    /\ mode = "parallel"
    /\ max_workers = 2
    /\ repo_pc = "loop"
    /\ Cardinality(running) = 2
    /\ Len(results) = 1
    /\ HandedToWorker = running \cup FinishedFiles
    /\ index = 3

\* ------------------------------- properties of the use of the validation engine

\* Every file of the order has been dealt with and none is in progress.
AllUpgradesOver == index = Len(ordered_files) /\ running = {}

\* The functions that run the runtime validation of a project.
EngineFunctions == ValidationFunctions \cup {"perform_runtime_validation"}

\* The calls of the runtime validation made so far.
EngineCalls == {i \in DOMAIN calls : calls[i].fn \in EngineFunctions}

\* C34: the runtime validation engine has a single user: a step in which a
\* file upgrade starts or ends makes no call of it; it is called by the run
\* itself only, for the baseline before the copy exists and before any
\* upgrade has started, at most once, and the verification pass is entered
\* only after every file upgrade has ended, at most once.
C34_EngineUsedByCoordinatorOnly ==
    [][ /\ calls' # calls =>
              /\ Len(calls') = Len(calls) + 1
              /\ SubSeq(calls', 1, Len(calls)) = calls
              /\ running = {} /\ running' = running /\ results' = results
              /\ calls'[Len(calls')].fn \in EngineFunctions =>
                    calls'[Len(calls')].fn \in ValidationFunctions
              /\ calls'[Len(calls')].fn = "perform_project_runtime_validation" =>
                    /\ repo_pc = "start"
                    /\ calls = <<>>
                    /\ results = <<>> /\ index = 0 /\ ordered_files = <<>>
              /\ calls'[Len(calls')].fn = "validate_repository" =>
                    /\ repo_pc = "reported"
                    /\ AllUpgradesOver
                    /\ \A i \in DOMAIN calls : calls[i].fn # "validate_repository"
        /\ (results' # results \/ running' # running) => calls' = calls
        /\ (repo_pc = "reported" /\ repo_pc' # repo_pc) => AllUpgradesOver
        /\ Cardinality(EngineCalls') <= 2 ]_vars

\* C34 witness: with verification, the baseline call was made first; two
\* workers have ended their upgrades, one upgrade is in progress, and the
\* baseline call is still the only call of the engine.
C34_Witness ==
    /\ mode = "parallel"
    /\ verify_runtime_outputs
    /\ Cardinality(EngineCalls) = 1
    /\ calls[1].fn = "perform_project_runtime_validation"
    /\ calls[1].project = "baseline_project"
    /\ Len(results) = 2
    /\ Cardinality(running) = 1

\* ------------------------------------ properties of the verification pass

\* At least one result is recorded and every recorded result is a success.
VerificationDue ==
    results # <<>> /\ \A i \in DOMAIN results : results[i].success

\* The run has entered the verification pass: validate_repository was
\* called, or the call itself raised.
VerificationInvoked ==
    \/ repo_pc = "TypeError"
    \/ \E i \in DOMAIN calls : calls[i].fn = "validate_repository"

\* C35: the verification pass is invoked if and only if at least one result
\* was recorded and all results are successes; otherwise, some file having
\* failed or no result being recorded at all, the run skips the pass and
\* returns the report path: once the loop over the files is over, a run in
\* which the pass is not due has written the report and goes on to return.
C35_VerificationIffAllSucceeded ==
    /\ VerificationInvoked => VerificationDue
    /\ (repo_pc \in {"returned", "RuntimeError"} /\ LoopOver /\ VerificationDue)
          => VerificationInvoked
    /\ (LoopOver /\ ~VerificationDue) =>
          /\ repo_pc \in {"reported", "returned"}
          /\ report = results
          /\ ~VerificationInvoked

\* ----------------------------------- properties of a run without any result

\* C39: a run in which no file result is recorded (every file of the order
\* is passed over, or there is none) completes normally in both modes: once
\* the loop is over the report is generated and the run goes on to return
\* its path; no exception ends it.
C39_EmptyRunReturnsReport ==
    (LoopOver /\ results = <<>>) =>
        /\ repo_pc \in {"reported", "returned"}
        /\ ReportWritten

\* -------------------------------------------- properties of the clean-up

UpgradeExhausted ==
    /\ file_pc = "done"
    /\ input_kind = "text"
    /\ loop.result = Exhausted(loop, MAX_RETRIES)
    /\ loop.last # "valid"

\* The first half of C37: an attempt answered with an empty text or a
\* refusal leaves the output file, the write count and the text the next
\* prompt is built from as they were, and the output file changes only in an
\* attempt whose response is non-empty and not a refusal.
C37_RefusedAttemptWritesNothing ==
    [][ /\ (loop'.attempt = loop.attempt + 1 /\ loop'.last \in {"empty", "refusal"}) =>
              /\ loop'.output_file = loop.output_file
              /\ loop'.writes = loop.writes
              /\ loop'.current_code = loop.current_code
              /\ loop'.candidate = loop.candidate
        /\ loop'.output_file # loop.output_file =>
              /\ loop'.attempt = loop.attempt + 1
              /\ Classify(upgrade_fn, loop'.response) = "code"
              /\ loop'.candidate = clean_llm_response(loop'.response) ]_vars

\* C37 (as claimed): an attempt whose extracted response is empty or a
\* refusal changes nothing but the recorded error, the output file is written
\* only in an attempt whose response is non-empty and not a refusal, and
\* after an exhausted upgrade the output file holds the last non-empty,
\* non-refusal response if any attempt produced one and the original text
\* otherwise.
C37_ExhaustedFileHoldsLastUsableResponse ==
    [][ /\ (loop'.attempt = loop.attempt + 1 /\ loop'.last \in {"empty", "refusal"}) =>
              /\ loop'.output_file = loop.output_file
              /\ loop'.current_code = loop.current_code
        /\ loop'.output_file # loop.output_file =>
              Classify(upgrade_fn, loop'.response) = "code"
        /\ UpgradeExhausted' =>
              loop'.output_file = IF loop'.candidate # "" THEN loop'.candidate
                                  ELSE OriginalCode ]_vars


\* C38 (as claimed): upgrade_file and upgrade_file_with_context are the same
\* retry state machine: from the locals the loop stands in, every response
\* is classified alike by both (empty, refusal, accepted for validation) and
\* the attempt leaves both with the same locals, hence with the same success
\* flag, attempt count and error when the call returns.
C38_BothFunctionsSameStateMachine ==
    (file_pc = "loop" /\ loop.attempt < MAX_RETRIES) =>
        \A response \in Responses, fault \in Faults :
            /\ Cardinality({Classify(fn, response) : fn \in UpgradeFunctions}) = 1
            /\ Cardinality({AttemptStep(fn, loop, response, fault).result :
                               fn \in UpgradeFunctions}) = 1
            /\ Cardinality({AttemptStep(fn, loop, response, fault).error :
                               fn \in UpgradeFunctions}) = 1


\* The files the main loop of _topological_sort left over: they follow the
\* main_count files the loop ordered.
LeftOver == {f \in Files : PosIn(sorted_files, f) > main_count}

\* C40 (as claimed): the files left over after the main loop (reported as
\* circular and scheduled last) are exactly the files that lie on a
\* dependency cycle or transitively depend on one; a file whose dependency
\* resolves to a file under a skipped directory, which is no graph node, is
\* ordered by the main loop.
C40_LeftOverIsExactlyCycleBound ==
    sort_pc = "done" =>
        /\ LeftOver = {f \in Files : CycleBound(dependency_graph, f)}
        /\ \A f \in Files :
              (SkippedDirFile \in dependency_graph[f]
                   /\ ~CycleBound(dependency_graph, f)) => f \notin LeftOver

=============================================================================
